---- MODULE Spec2Model ----
(***************************************************************************)
(* Analysis orchestration and caching pipeline of code-review-api:         *)
(* AnalysisController (create / get / list / delete / stats), the rerun    *)
(* route handler, and AnalysisService.processAnalysis run as a detached    *)
(* setImmediate callback.  Every await that touches the Record Store or    *)
(* the cache is a separate step, so request handlers and pipeline runs     *)
(* interleave as they do on the Node event loop.                           *)
(***************************************************************************)
EXTENDS Integers, Sequences, FiniteSets, TLC

(* ------------------------------ bounds --------------------------------- *)
\* pull requests of the connected repository (natural keys)
NumPRs == 1
\* analysis ids the store ever issues
MaxIds == 2
\* HTTP requests handled in one behaviour
MaxReqs == 3
\* store / cache calls that fail in one behaviour
MaxFaults == 2
\* entries of the longer suggestion arrays the engine replies with
MaxItems == 2
\* characters of a short and of a long error message that came from outside
ShortMessage == 24
LongMessage == 480

(* ----------------------------- vocabulary ------------------------------ *)
Users == {"alice", "bob"}
\* the user that owns the (active) connected repository
Owner == "alice"
\* the value of a JavaScript argument that was not passed
Undefined == "undefined"
PRs == 1..NumPRs
Ids == 1..MaxIds
Slots == 1..MaxReqs
\* the one query-parameter combination listing requests use
Queries == {"1:10:all:all:createdAt:desc"}

InProgress == {"PENDING", "PROCESSING"}
Terminal == {"COMPLETED", "FAILED"}

\* cleanSuggestion's substring limits and parseAndValidateResponse's slice
MessageLimit == 200
SuggestionLimit == 500
SnippetLimit == 300
MainConcernsLimit == 5

\* Texts are kept by their length: message and suggestion are the number of
\* characters of the column, codeSnippet is << >> for null and <<n>> for a
\* snippet of n characters.

\* a suggestion the engine reports, after cleanSuggestion
AiSuggestion ==
  [filePath |-> "src/app.js", lineNumber |-> 3, severity |-> "LOW",
   category |-> "Code Quality", message |-> 40, suggestion |-> 120,
   codeSnippet |-> << >>]

\* an error message: a fixed text followed by extra characters of a message
\* that came from outside (the engine's SDK, redis)
NoError == [text |-> "", extra |-> 0]
\* the message the service's own catch blocks wrap a failure in
WrappedError == [text |-> "Failed to save analysis suggestions", extra |-> 0]
ErrorLength(e) == Len(e.text) + e.extra

\* the row saveErrorSuggestion writes for error.message
SaveErrorSuggestion(e) ==
  [filePath |-> "analysis-error", lineNumber |-> 1, severity |-> "HIGH",
   category |-> "Analysis Error",
   message |-> Len("Analysis failed to complete"),
   suggestion |-> Len("Error: ") + ErrorLength(e),
   codeSnippet |-> << >>]

\* the row saveErrorSuggestion writes for a wrapped failure
ErrorSuggestion == SaveErrorSuggestion(WrappedError)

\* suggestion lists analyzeCode can return
Reports == {<< >>, <<AiSuggestion>>}

\* the files of the diff bundle getPRDiff returns
DiffFiles ==
  <<[filename |-> "src/app.js", status |-> "modified", patch |-> "p1",
     additions |-> 3, deletions |-> 2],
    [filename |-> "README.md", status |-> "modified", patch |-> "p2",
     additions |-> 0, deletions |-> 1]>>

VARIABLES
  store,        \* analysis table: id -> record, for the ids that exist
  suggestions,  \* suggestion table: analysis id -> rows, in insertion order
  nextId,       \* next id the store issues
  cache,        \* redis: key -> value, for the keys that are set
  run,          \* per analysis id, the position of its setImmediate callback
  req,          \* per request slot, the handler's position and its response
  faults,       \* store / cache calls that have failed so far
  deletedOk,    \* ids for which DELETE /analyses/{id} has returned success
  hits          \* analysisCreationLimit's store: key -> hits in its window

vars ==
  <<store, suggestions, nextId, cache, run, req, faults, deletedOk, hits>>

(* ------------------------------ helpers -------------------------------- *)
Restrict(f, S) == [x \in (DOMAIN f) \cap S |-> f[x]]

RECURSIVE SumLines(_, _)
SumLines(files, n) ==
  IF n = 0 THEN 0
  ELSE SumLines(files, n - 1) + files[n].additions + files[n].deletions

\* AnalysisService.calculateTotalLines
CalculateTotalLines(files) == SumLines(files, Len(files))

\* outcomes of one store call
StoreOutcomes == IF faults < MaxFaults THEN {"ok", "store_fail"} ELSE {"ok"}
\* outcomes of a store call followed by a cache call
StoreCacheOutcomes ==
  IF faults < MaxFaults THEN {"ok", "store_fail", "cache_fail"} ELSE {"ok"}
\* outcomes of one cache call
CacheOutcomes == IF faults < MaxFaults THEN {"ok", "cache_fail"} ELSE {"ok"}

Charge(o) == faults' = IF o = "ok" THEN faults ELSE faults + 1

(* --------------------------- Record Store ------------------------------ *)
\* the record with natural key (repository, pr), if any
IdsOfPair(st, pr) == {i \in DOMAIN st : st[i].pr = pr}

\* the @@unique([repositoryId, prNumber]) constraint: create raises P2002
UniqueViolationNever(st, pr) == FALSE
UniqueViolation(st, pr) == IdsOfPair(st, pr) # {}

\* prisma.analysis.create
PrismaCreate(st, id, u, pr) ==
  [i \in (DOMAIN st) \cup {id} |->
     IF i = id
     THEN [pr |-> pr, userId |-> u, status |-> "PENDING",
           totalLines |-> -1, completedAt |-> FALSE]
     ELSE st[i]]

\* prisma.analysis.delete: the analysis row
PrismaDeleteKeep(st, id) == st
PrismaDelete(st, id) == Restrict(st, (DOMAIN st) \ {id})

\* prisma.analysis.delete: the cascade to the suggestion rows ("cascades to
\* suggestions"; the relation is declared in the Prisma schema)
CascadeDelete(sg, id) == [sg EXCEPT ![id] = << >>]

\* prisma.analysis.update({ data: { status, completedAt? } })
PrismaUpdateStatus(st, id, status) ==
  [st EXCEPT ![id].status = status,
             ![id].completedAt = IF status = "COMPLETED" THEN TRUE ELSE @]

(* ------------------------------- cache --------------------------------- *)
AnalysisKey(id) == <<"analysis", id>>
FullKey(id) == <<"analysis:full", id>>
StatusKey(id) == <<"analysis:status", id>>
\* the key getUserAnalyses (controller) reads and writes
ListKey(u, q) == <<"user:analyses", u, q>>
\* the key createAnalysis and deleteAnalysis delete
UserAnalysesKey(u) == <<"user:analyses", u>>
StatsKey(u) == <<"user:stats", u>>

RedisDel(c, keys) == Restrict(c, (DOMAIN c) \ keys)
RedisSetex(c, k, v) == [x \in (DOMAIN c) \cup {k} |-> IF x = k THEN v ELSE c[x]]
\* redis.keys(`analyses:user:${userId}:*`)
RedisKeysServiceListing(c, u) ==
  {k \in DOMAIN c : Len(k) = 3 /\ k[1] = "analyses:user" /\ k[2] = u}

\* AnalysisService.invalidateAnalysisCache (errors are swallowed)
InvalidateAnalysisCache(c, id, u) ==
  RedisDel(c, {FullKey(id), StatusKey(id)} \cup RedisKeysServiceListing(c, u))

(* ------------------- JavaScript values of a payload -------------------- *)
\* A JSON value of the engine's reply.  t is its JavaScript type.  A string
\* has content s of n characters between pad white-space characters; a
\* number has the value n; an array has n entries.
JsString(s, n, pad) == [t |-> "string", s |-> s, n |-> n, pad |-> pad]
Str(s) == JsString(s, Len(s), 0)
Text(n) == JsString(IF n = 0 THEN "" ELSE "text", n, 0)
Num(n) == [t |-> "number", s |-> "", n |-> n, pad |-> 0]
ArrayOf(n) == [t |-> "array", s |-> "", n |-> n, pad |-> 0]
JsObject == [t |-> "object", s |-> "", n |-> 0, pad |-> 0]
JsNull == [t |-> "null", s |-> "", n |-> 0, pad |-> 0]
JsUndefined == [t |-> "undefined", s |-> "", n |-> 0, pad |-> 0]

\* ToBoolean
Truthy(v) ==
  CASE v.t = "string" -> v.n + v.pad > 0
    [] v.t = "number" -> v.n # 0
    [] v.t \in {"null", "undefined"} -> FALSE
    [] OTHER -> TRUE

\* String.prototype.trim, .length, .substring(0, limit), .toUpperCase
Trim(v) == [v EXCEPT !.pad = 0]
JsLength(v) == v.n + v.pad
Substring(v, limit) ==
  IF JsLength(v) <= limit THEN v ELSE [v EXCEPT !.n = limit, !.pad = 0]
ToUpperCase(s) ==
  CASE s = "high" -> "HIGH"
    [] s = "medium" -> "MEDIUM"
    [] s = "low" -> "LOW"
    [] OTHER -> s

Min(a, b) == IF a < b THEN a ELSE b
Max(a, b) == IF a > b THEN a ELSE b

\* parseInt of a number with an integral value, then `|| 1`
ParseIntOrOne(v) == IF v.n = 0 THEN 1 ELSE v.n

(* ------------------- suggestion engine adapter: parsing ---------------- *)
Severities == {"HIGH", "MEDIUM", "LOW"}

\* OpenAIService.isValidSuggestion
IsValidSuggestion(sg) ==
  /\ sg.object
  /\ sg.filePath.t = "string"
  /\ sg.lineNumber.t = "number"
  /\ sg.severity.t = "string" /\ sg.severity.pad = 0
  /\ sg.severity.s \in Severities
  /\ sg.category.t = "string"
  /\ sg.message.t = "string"
  /\ sg.suggestion.t = "string"

\* cleanSuggestion calls codeSnippet.trim() on any truthy codeSnippet: a
\* TypeError when it is not a string
CleanThrows(sg) == Truthy(sg.codeSnippet) /\ sg.codeSnippet.t # "string"

\* OpenAIService.cleanSuggestion
CleanSuggestion(sg) ==
  [filePath |-> Trim(sg.filePath).s,
   lineNumber |-> Max(1, ParseIntOrOne(sg.lineNumber)),
   severity |-> ToUpperCase(sg.severity.s),
   category |-> Trim(sg.category).s,
   message |-> JsLength(Substring(Trim(sg.message), MessageLimit)),
   suggestion |-> JsLength(Substring(Trim(sg.suggestion), SuggestionLimit)),
   codeSnippet |->
     IF Truthy(sg.codeSnippet)
     THEN <<JsLength(Substring(Trim(sg.codeSnippet), SnippetLimit))>>
     ELSE << >>]

\* the one suggestion of the fallback report
FallbackSuggestion ==
  [filePath |-> "analysis-error", lineNumber |-> 1, severity |-> "MEDIUM",
   category |-> "Analysis Error",
   message |-> Len("Failed to analyze code properly"),
   suggestion |-> Len("The AI analysis encountered an error.")
                  + Len(" Please try analyzing this PR again."),
   codeSnippet |-> << >>]

\* OpenAIService.getFallbackAnalysis
GetFallbackAnalysis ==
  [summary |-> [totalIssues |-> 1, criticalIssues |-> 0,
                overallRating |-> Str("needs_improvement"),
                mainConcerns |-> 1],
   suggestions |-> <<FallbackSuggestion>>]

IsHigh(row) == row.severity = "HIGH"

\* analysis.suggestions.filter(this.isValidSuggestion)
ValidItems(response) == SelectSeq(response.suggestions.items, IsValidSuggestion)

\* parseAndValidateResponse's try block throws: JSON.parse, a property read
\* of null, the two structure checks, .filter of a value that is no array,
\* or cleanSuggestion
ParseThrows(response) ==
  \/ ~response.json
  \/ ~response.object
  \/ ~response.summary.object
  \/ response.suggestions.t \in {"null", "undefined"}
  \/ response.summary.totalIssues.t # "number"
  \/ response.summary.criticalIssues.t # "number"
  \/ ~Truthy(response.summary.overallRating)
  \/ response.summary.mainConcerns.t # "array"
  \/ response.suggestions.t # "array"
  \/ \E i \in 1..Len(ValidItems(response)) :
       CleanThrows(ValidItems(response)[i])

\* OpenAIService.parseAndValidateResponse
ParseAndValidateResponse(response) ==
  IF ParseThrows(response) THEN GetFallbackAnalysis
  ELSE LET valid == ValidItems(response)
           validSuggestions ==
             [i \in 1..Len(valid) |-> CleanSuggestion(valid[i])]
       IN  [summary |->
              [totalIssues |-> Len(validSuggestions),
               criticalIssues |-> Len(SelectSeq(validSuggestions, IsHigh)),
               overallRating |-> response.summary.overallRating,
               mainConcerns |->
                 Min(response.summary.mainConcerns.n, MainConcernsLimit)],
            suggestions |-> validSuggestions]

\* JSON.stringify / JSON.parse of a value the service built
JsonStringify(v) == [json |-> v]
JsonParse(text) == text.json

(* ---------------------------- diff bundles ----------------------------- *)
NoBundle == [pr |-> [number |-> 0, title |-> "", body |-> ""], files |-> << >>]

\* the bundle getPRDiff builds from the two GitHub responses
Bundle(pr, title, body, files) ==
  [pr |-> [number |-> pr, title |-> title, body |-> body], files |-> files]

\* the bundle of a pull request as first fetched
FirstBundle(pr) == Bundle(pr, "Fix login", "v1", DiffFiles)

\* the diff after one more commit
DiffFilesPushed ==
  <<[filename |-> "src/app.js", status |-> "modified", patch |-> "p3",
     additions |-> 5, deletions |-> 2]>>

\* what GitHub can answer for a pull request: as first fetched, with an
\* edited description, and after one more commit
Bundles(pr) ==
  {FirstBundle(pr), Bundle(pr, "Fix login", "v2", DiffFiles),
   Bundle(pr, "Fix login", "v1", DiffFilesPushed)}

GenerateContentHashWhole(prData) == prData
\* OpenAIService.generateContentHash: the digest of number, title and the
\* files' (filename, status, patch)
GenerateContentHash(prData) ==
  <<prData.pr.number, prData.pr.title,
    [i \in 1..Len(prData.files) |->
       <<prData.files[i].filename, prData.files[i].status,
         prData.files[i].patch>>]>>

(* ------------------------ the engine's replies ------------------------- *)
\* a well-formed suggestion; cleanSuggestion turns it into AiSuggestion
RawLow ==
  [object |-> TRUE, filePath |-> Str("src/app.js"), lineNumber |-> Num(3),
   severity |-> Str("LOW"), category |-> Str("Code Quality"),
   message |-> Text(40), suggestion |-> Text(120), codeSnippet |-> JsNull]

RawHigh ==
  [RawLow EXCEPT !.filePath = Str("src/auth.js"), !.lineNumber = Num(12),
                 !.severity = Str("HIGH"), !.category = Str("Security"),
                 !.codeSnippet = Text(60)]

\* a null entry of the suggestions array
NullItem ==
  [object |-> FALSE, filePath |-> JsUndefined, lineNumber |-> JsUndefined,
   severity |-> JsUndefined, category |-> JsUndefined,
   message |-> JsUndefined, suggestion |-> JsUndefined,
   codeSnippet |-> JsUndefined]

\* RawLow with one field changed
RawVariants ==
  {RawLow, RawHigh, NullItem,
   [RawLow EXCEPT !.filePath = Num(7)],
   [RawLow EXCEPT !.lineNumber = Str("3")],
   [RawLow EXCEPT !.lineNumber = Num(0)],
   [RawLow EXCEPT !.lineNumber = Num(-4)],
   [RawLow EXCEPT !.severity = Str("high")],
   [RawLow EXCEPT !.severity = Str("CRITICAL")],
   [RawLow EXCEPT !.severity = JsString("HIGH", 4, 1)],
   [RawLow EXCEPT !.category = Num(1)],
   [RawLow EXCEPT !.category = Str("")],
   [RawLow EXCEPT !.category = JsString("", 0, 2)],
   [RawLow EXCEPT !.message = JsUndefined],
   [RawLow EXCEPT !.message = Str("")],
   [RawLow EXCEPT !.message = JsString("text", MessageLimit + 50, 2)],
   [RawLow EXCEPT !.suggestion = Text(SuggestionLimit + 1)],
   [RawLow EXCEPT !.codeSnippet = Text(SnippetLimit + 1)],
   [RawLow EXCEPT !.codeSnippet = Str("")],
   [RawLow EXCEPT !.codeSnippet = Num(42)],
   [RawLow EXCEPT !.codeSnippet = ArrayOf(2)]}

\* the entries longer suggestion arrays are built from
PairPool == {RawLow, RawHigh, NullItem, [RawLow EXCEPT !.severity = Str("high")]}

RECURSIVE ListsOf(_, _)
ListsOf(pool, n) ==
  IF n = 0 THEN {<< >>}
  ELSE ListsOf(pool, n - 1)
       \cup {Append(l, x) : l \in {m \in ListsOf(pool, n - 1) : Len(m) = n - 1},
                            x \in pool}

SuggestionLists == {<<x>> : x \in RawVariants} \cup ListsOf(PairPool, MaxItems)

\* a summary that passes the structure check; its counts are the engine's own
GoodSummary ==
  [object |-> TRUE, totalIssues |-> Num(9), criticalIssues |-> Num(4),
   overallRating |-> Str("good"), mainConcerns |-> ArrayOf(7)]

Summaries ==
  {GoodSummary,
   [GoodSummary EXCEPT !.mainConcerns = ArrayOf(2)],
   [GoodSummary EXCEPT !.object = FALSE],
   [GoodSummary EXCEPT !.totalIssues = Str("9")],
   [GoodSummary EXCEPT !.criticalIssues = JsUndefined],
   [GoodSummary EXCEPT !.overallRating = Str("")],
   [GoodSummary EXCEPT !.mainConcerns = Str("none")]}

\* completion.choices[0].message.content
Response(summary, t, items) ==
  [received |-> TRUE, json |-> TRUE, object |-> TRUE, summary |-> summary,
   suggestions |-> [t |-> t, items |-> items]]

NoResponse ==
  [Response(GoodSummary, "undefined", << >>) EXCEPT
     !.received = FALSE, !.json = FALSE, !.object = FALSE]
\* text that JSON.parse rejects, and the JSON text `null`
NotJson == [NoResponse EXCEPT !.received = TRUE]
JsonNull == [NotJson EXCEPT !.json = TRUE]

Responses ==
  {Response(GoodSummary, "array", l) : l \in SuggestionLists}
  \cup {Response(s, "array", <<RawLow>>) : s \in Summaries}
  \cup {Response(GoodSummary, "object", << >>),
        Response(GoodSummary, "undefined", << >>), NotJson, JsonNull}

\* the replies the abstract step RunAnalyze stands for
NoSummary ==
  [totalIssues |-> 0, criticalIssues |-> 0, overallRating |-> JsUndefined,
   mainConcerns |-> 0]

(* ------------------------- the adapters' errors ------------------------ *)
\* error.code of a failed engine call
EngineErrorCodes ==
  {"rate_limit_exceeded", "insufficient_quota", "invalid_request_error", "other"}

\* lengths of error.message of a failure that came from outside
ExternalMessages == {ShortMessage, LongMessage}

\* analyzeCode's catch block: the error it throws for a caught error with
\* this code and a message of this length
AnalyzeCodeError(code, length) ==
  CASE code = "rate_limit_exceeded" ->
         [text |-> "OpenAI rate limit exceeded. Please try again later.",
          extra |-> 0]
    [] code = "insufficient_quota" ->
         [text |-> "OpenAI API quota exceeded. Please check your billing.",
          extra |-> 0]
    [] code = "invalid_request_error" ->
         [text |-> "Invalid request to OpenAI API. The code might be too large.",
          extra |-> 0]
    [] OTHER -> [text |-> "Failed to analyze code with AI: ", extra |-> length]

GetPRDiffErrorGeneric(status) ==
  [text |-> "Failed to fetch PR diff from GitHub", extra |-> 0]
\* getPRDiff's catch block: the error it throws for error.response?.status
GetPRDiffError(status) ==
  CASE status = 404 ->
         [text |-> "Pull request not found or no access to repository",
          extra |-> 0]
    [] status = 403 ->
         [text |-> "Access denied to repository or rate limit exceeded",
          extra |-> 0]
    [] OTHER -> [text |-> "Failed to fetch PR diff from GitHub", extra |-> 0]

\* error.response?.status of a failed GitHub call; 0 when the error has no
\* response (network failure)
UpstreamStatuses == {404, 403, 500, 0}

\* an error an adapter's catch block caught: where it came from, its code
\* (engine SDK), its response status (GitHub) and the length of its message
Caught(source, code, status, length) ==
  [source |-> source, code |-> code, status |-> status, length |-> length]
NoCaught == Caught("", "", 0, 0)

\* what a failed engine call throws
EngineErrors ==
  {Caught("openai", c, 0, ShortMessage) :
     c \in EngineErrorCodes \ {"other"}}
  \cup {Caught("openai", "other", 0, l) : l \in ExternalMessages}

(* ---------------------------- pipeline run ----------------------------- *)
\* failed: the step of processAnalysis that threw, "" while none has
\* prNumber, userId: the fields of the loaded analysis the run uses later;
\* bundle: prData; response: the engine's reply; report, summary: aiAnalysis;
\* caught, error: what the adapter caught and what reached the catch block;
\* calls: the external services called
NoRun ==
  [pc |-> "none", report |-> << >>, failed |-> "", error |-> NoError,
   prNumber |-> 0, userId |-> "", bundle |-> NoBundle,
   response |-> NoResponse, summary |-> NoSummary, caught |-> NoCaught,
   calls |-> {}]

SetRun(id, pc) == run' = [run EXCEPT ![id].pc = pc]
\* the step throws: control passes to processAnalysis's catch block
Throw(id, step) ==
  run' = [run EXCEPT ![id].pc = "catch", ![id].failed = step,
                     ![id].error = WrappedError]

\* AnalysisService.updateAnalysisStatus: the store update, then redis.del of
\* the status key; either may throw
StatusThrows(st, id, o) == o # "ok" \/ id \notin DOMAIN st
StatusStore(st, id, status, o) ==
  IF o = "store_fail" \/ id \notin DOMAIN st THEN st
  ELSE PrismaUpdateStatus(st, id, status)
StatusCache(c, id, o) ==
  IF StatusThrows(store, id, o) THEN c ELSE RedisDel(c, {StatusKey(id)})

\* processAnalysis: findUnique; a missing record throws past the catch block
\* (analysis is undefined there) into the callback's catch
RunLoad(id) ==
  /\ run[id].pc = "queued"
  /\ \E o \in StoreOutcomes :
       /\ Charge(o)
       /\ IF o = "ok" /\ id \in DOMAIN store
          THEN run' = [run EXCEPT ![id].pc = "processing",
                                  ![id].prNumber = store[id].pr,
                                  ![id].userId = store[id].userId]
          ELSE run' = [run EXCEPT ![id].pc = "cbfail", ![id].failed = "load"]
  /\ UNCHANGED <<store, suggestions, nextId, cache, req, deletedOk, hits>>

\* updateAnalysisStatus(analysisId, "PROCESSING")
RunProcessing(id) ==
  /\ run[id].pc = "processing"
  /\ \E o \in StoreCacheOutcomes :
       /\ Charge(o)
       /\ store' = StatusStore(store, id, "PROCESSING", o)
       /\ cache' = StatusCache(cache, id, o)
       /\ IF StatusThrows(store, id, o)
          THEN Throw(id, "processing") ELSE SetRun(id, "diff")
  /\ UNCHANGED <<suggestions, nextId, req, deletedOk, hits>>

\* githubService.getPRDiff
RunDiff(id) ==
  /\ run[id].pc = "diff"
  /\ \E fetched \in BOOLEAN :
       IF fetched
       THEN run' = [run EXCEPT ![id].pc = "lines",
                               ![id].bundle = FirstBundle(run[id].prNumber)]
       ELSE Throw(id, "diff")
  /\ UNCHANGED <<store, suggestions, nextId, cache, req, faults,
                 deletedOk, hits>>

RunLinesSkipped(id) ==
  /\ run[id].pc = "lines"
  /\ SetRun(id, "analyze")
  /\ UNCHANGED <<store, suggestions, nextId, cache, req, faults,
                 deletedOk, hits>>

\* prisma.analysis.update({ data: { totalLines } })
RunLines(id) ==
  /\ run[id].pc = "lines"
  /\ \E o \in StoreOutcomes :
       /\ Charge(o)
       /\ IF o = "ok" /\ id \in DOMAIN store
          THEN /\ store' = [store EXCEPT
                              ![id].totalLines =
                                CalculateTotalLines(run[id].bundle.files)]
               /\ SetRun(id, "analyze")
          ELSE /\ store' = store
               /\ Throw(id, "lines")
  /\ UNCHANGED <<suggestions, nextId, cache, req, deletedOk, hits>>

\* openaiService.analyzeCode
RunAnalyze(id) ==
  /\ run[id].pc = "analyze"
  /\ \/ \E rep \in Reports :
          run' = [run EXCEPT ![id].pc = "save", ![id].report = rep]
     \/ Throw(id, "analyze")
  /\ UNCHANGED <<store, suggestions, nextId, cache, req, faults,
                 deletedOk, hits>>

\* AnalysisService.saveSuggestions: no store call for an empty list, else one
\* createMany
RunSave(id) ==
  /\ run[id].pc = "save"
  /\ IF run[id].report = << >>
     THEN /\ SetRun(id, "complete")
          /\ UNCHANGED <<suggestions, faults>>
     ELSE \E o \in StoreOutcomes :
            /\ Charge(o)
            /\ IF o = "ok" /\ id \in DOMAIN store
               THEN /\ suggestions' =
                         [suggestions EXCEPT ![id] = @ \o run[id].report]
                    /\ SetRun(id, "complete")
               ELSE /\ suggestions' = suggestions
                    /\ Throw(id, "save")
  /\ UNCHANGED <<store, nextId, cache, req, deletedOk, hits>>

\* updateAnalysisStatus(analysisId, "COMPLETED"), then invalidateAnalysisCache
RunComplete(id) ==
  /\ run[id].pc = "complete"
  /\ \E o \in StoreCacheOutcomes :
       /\ Charge(o)
       /\ store' = StatusStore(store, id, "COMPLETED", o)
       /\ IF StatusThrows(store, id, o)
          THEN /\ cache' = cache
               /\ Throw(id, "complete")
          ELSE /\ cache' = InvalidateAnalysisCache(
                             RedisDel(cache, {StatusKey(id)}), id,
                             store[id].userId)
               /\ SetRun(id, "done")
  /\ UNCHANGED <<suggestions, nextId, req, deletedOk, hits>>

\* processAnalysis catch block: updateAnalysisStatus(analysisId, "FAILED");
\* when that throws, saveErrorSuggestion is skipped
RunCatch(id) ==
  /\ run[id].pc = "catch"
  /\ \E o \in StoreCacheOutcomes :
       /\ Charge(o)
       /\ store' = StatusStore(store, id, "FAILED", o)
       /\ cache' = StatusCache(cache, id, o)
       /\ SetRun(id, IF StatusThrows(store, id, o) THEN "cbfail" ELSE "errsugg")
  /\ UNCHANGED <<suggestions, nextId, req, deletedOk, hits>>

\* saveErrorSuggestion (swallows its own failure), then `throw error`
RunErrorSuggestion(id) ==
  /\ run[id].pc = "errsugg"
  /\ \E o \in StoreOutcomes :
       /\ Charge(o)
       /\ suggestions' =
            IF o = "ok" /\ id \in DOMAIN store
            THEN [suggestions EXCEPT
                    ![id] = Append(@, SaveErrorSuggestion(run[id].error))]
            ELSE suggestions
  /\ SetRun(id, "cbfail")
  /\ UNCHANGED <<store, nextId, cache, req, deletedOk, hits>>

\* the setImmediate callback's catch: updateAnalysisStatus(analysis.id,
\* "FAILED"); an error here leaves the async callback as a rejected promise
RunCallbackFail(id) ==
  /\ run[id].pc = "cbfail"
  /\ \E o \in StoreCacheOutcomes :
       /\ Charge(o)
       /\ store' = StatusStore(store, id, "FAILED", o)
       /\ cache' = StatusCache(cache, id, o)
       /\ SetRun(id, IF StatusThrows(store, id, o) THEN "rejected" ELSE "done")
  /\ UNCHANGED <<suggestions, nextId, req, deletedOk, hits>>

Pipeline ==
  \E id \in Ids :
    \/ RunLoad(id)
    \/ RunProcessing(id)
    \/ RunDiff(id)
    \/ RunLines(id)
    \/ RunAnalyze(id)
    \/ RunSave(id)
    \/ RunComplete(id)
    \/ RunCatch(id)
    \/ RunErrorSuggestion(id)
    \/ RunCallbackFail(id)

(* --------------------- pipeline run: the adapters ---------------------- *)
\* The two adapters in full.  RunDiff and RunAnalyze above keep only what
\* processAnalysis sees of them (a bundle or a report comes back, or an
\* error is thrown); GetPRDiff and AnalyzeCode are the same two calls with
\* the adapter's own cache, its external call and its catch block.
DiffKey(pr) == <<"github:diff", pr>>
SessionKey(u) == <<"session", u>>
AiKey(hash) == <<"ai:analysis", hash>>

\* the adapter's catch block caught `caught` and throws e; calls are the
\* external services the adapter had called by then
ThrowError(id, caught, e, calls) ==
  run' = [run EXCEPT ![id].failed = run[id].pc, ![id].pc = "catch",
                     ![id].caught = caught, ![id].error = e,
                     ![id].calls = @ \cup calls]

\* githubService.getPRDiff(repository.fullName, prNumber, userId)
GetPRDiff(id) ==
  /\ run[id].pc = "diff"
  /\ LET key == DiffKey(run[id].prNumber)
         session == SessionKey(run[id].userId) \in DOMAIN cache
     IN  \/ \* redis.get rejects
            /\ faults < MaxFaults
            /\ faults' = faults + 1
            /\ cache' = cache
            /\ ThrowError(id, Caught("redis", "", 0, ShortMessage),
                          GetPRDiffError(0), {})
         \/ \* cache hit
            /\ key \in DOMAIN cache
            /\ run' = [run EXCEPT ![id].pc = "lines",
                                  ![id].bundle = JsonParse(cache[key])]
            /\ UNCHANGED <<cache, faults>>
         \/ \* miss; getGithubToken finds no session
            /\ key \notin DOMAIN cache /\ ~session
            /\ ThrowError(id, Caught("session", "", 0, ShortMessage),
                          GetPRDiffError(0), {})
            /\ UNCHANGED <<cache, faults>>
         \/ \* miss; one of the two GitHub requests fails
            /\ key \notin DOMAIN cache /\ session
            /\ \E status \in UpstreamStatuses :
                 ThrowError(id, Caught("github", "", status, ShortMessage),
                            GetPRDiffError(status), {"github"})
            /\ UNCHANGED <<cache, faults>>
         \/ \* miss; both requests answer; redis.setex
            /\ key \notin DOMAIN cache /\ session
            /\ \E b \in Bundles(run[id].prNumber), o \in CacheOutcomes :
                 /\ Charge(o)
                 /\ IF o = "ok"
                    THEN /\ cache' = RedisSetex(cache, key, JsonStringify(b))
                         /\ run' = [run EXCEPT ![id].pc = "lines",
                                               ![id].bundle = b,
                                               ![id].calls = @ \cup {"github"}]
                    ELSE /\ cache' = cache
                         /\ ThrowError(id,
                                       Caught("redis", "", 0, ShortMessage),
                                       GetPRDiffError(0), {"github"})
  /\ UNCHANGED <<store, suggestions, nextId, req, deletedOk, hits>>

\* openaiService.analyzeCode(prData); responses are the replies the engine
\* can give
AnalyzeCode(id, responses) ==
  /\ run[id].pc = "analyze"
  /\ LET key == AiKey(GenerateContentHash(run[id].bundle))
     IN  \/ \* redis.get rejects
            /\ faults < MaxFaults
            /\ faults' = faults + 1
            /\ cache' = cache
            /\ ThrowError(id, Caught("redis", "", 0, ShortMessage),
                          AnalyzeCodeError("", ShortMessage), {})
         \/ \* cache hit
            /\ key \in DOMAIN cache
            /\ run' = [run EXCEPT
                         ![id].pc = "save",
                         ![id].report = JsonParse(cache[key]).suggestions,
                         ![id].summary = JsonParse(cache[key]).summary]
            /\ UNCHANGED <<cache, faults>>
         \/ \* miss; the engine call throws
            /\ key \notin DOMAIN cache
            /\ \E e \in EngineErrors :
                 ThrowError(id, e, AnalyzeCodeError(e.code, e.length),
                            {"openai"})
            /\ UNCHANGED <<cache, faults>>
         \/ \* miss; the engine replies; parse, then redis.setex
            /\ key \notin DOMAIN cache
            /\ \E response \in responses, o \in CacheOutcomes :
                 LET analysis == ParseAndValidateResponse(response)
                 IN  /\ Charge(o)
                     /\ IF o = "ok"
                        THEN /\ cache' = RedisSetex(cache, key,
                                                    JsonStringify(analysis))
                             /\ run' = [run EXCEPT
                                          ![id].pc = "save",
                                          ![id].response = response,
                                          ![id].report = analysis.suggestions,
                                          ![id].summary = analysis.summary,
                                          ![id].calls = @ \cup {"openai"}]
                        ELSE /\ cache' = cache
                             /\ run' = [run EXCEPT
                                          ![id].failed = "analyze",
                                          ![id].pc = "catch",
                                          ![id].response = response,
                                          ![id].caught =
                                            Caught("redis", "", 0, ShortMessage),
                                          ![id].error =
                                            AnalyzeCodeError("", ShortMessage),
                                          ![id].calls = @ \cup {"openai"}]
  /\ UNCHANGED <<store, suggestions, nextId, req, deletedOk, hits>>

\* processAnalysis with the two adapters in full
RunWith(id, responses) ==
  \/ RunLoad(id)
  \/ RunProcessing(id)
  \/ GetPRDiff(id)
  \/ RunLines(id)
  \/ AnalyzeCode(id, responses)
  \/ RunSave(id)
  \/ RunComplete(id)
  \/ RunCatch(id)
  \/ RunErrorSuggestion(id)
  \/ RunCallbackFail(id)

EnginePipeline == \E id \in Ids : RunWith(id, Responses)

\* the replies of the runs that share a pull request: two suggestions, none,
\* and text that is no JSON
ReuseResponses ==
  {Response(GoodSummary, "array", <<RawHigh, RawLow>>),
   Response(GoodSummary, "array", << >>), NotJson}

ReusePipeline == \E id \in Ids : RunWith(id, ReuseResponses)

(* ------------------------------ requests ------------------------------- *)
IdleReq ==
  [op |-> "none", pc |-> "idle", user |-> "", pr |-> 0, id |-> 0, code |-> 0,
   rid |-> 0, status |-> "", tag |-> "", data |-> << >>, afterDel |-> FALSE,
   stale |-> FALSE, seen |-> "", access |-> "", format |-> "",
   pending |-> {}]

\* the handler ends with a response (ApiResponse.* or next(error)); access,
\* the handler's local hasAccess, ends with it
Reply(r, code, tag) ==
  [r EXCEPT !.pc = "done", !.code = code, !.tag = tag, !.access = ""]

\* a slot takes a request once, slots in order
CanStart(s) ==
  /\ req[s].pc = "idle"
  /\ s > 1 => req[s - 1].pc # "idle"

\* ids a client can name: those the store has issued
Issued == 1..(nextId - 1)

\* the userId argument the controller passes to getAnalysisWithSuggestions:
\* both call sites pass the analysis id only
ServiceUserIdPassed(u) == u
ServiceUserIdArg(u) == Undefined

\* AnalysisService.getAnalysisWithSuggestions(analysisId, userId)
NoAnalysis ==
  [id |-> 0, userId |-> "", status |-> "", totalLines |-> -1,
   suggestions |-> << >>]

\* position of a severity in the sort order of the severity column; the
\* column's type is declared in the Prisma schema ("ordered by severity
\* (HIGH first)" for the query that sorts descending)
SeverityRank(severity) ==
  CASE severity = "LOW" -> 1
    [] severity = "MEDIUM" -> 2
    [] OTHER -> 3

\* orderBy: [{ severity: dir }, { lineNumber: "asc" }]: row a comes before b
SortsBefore(a, b, dir) ==
  \/ dir = "asc" /\ SeverityRank(a.severity) < SeverityRank(b.severity)
  \/ dir = "desc" /\ SeverityRank(a.severity) > SeverityRank(b.severity)
  \/ a.severity = b.severity /\ a.lineNumber < b.lineNumber

RECURSIVE Insert(_, _, _)
Insert(sorted, row, dir) ==
  IF sorted = << >> THEN <<row>>
  ELSE IF SortsBefore(row, Head(sorted), dir) THEN <<row>> \o sorted
  ELSE <<Head(sorted)>> \o Insert(Tail(sorted), row, dir)

\* the rows in the order the query returns them (rows with equal keys stay
\* in insertion order)
RECURSIVE OrderBy(_, _)
OrderBy(rows, dir) ==
  IF rows = << >> THEN << >>
  ELSE Insert(OrderBy(SubSeq(rows, 1, Len(rows) - 1), dir), rows[Len(rows)],
              dir)

\* the direction of the severity key in each of the two queries
ServiceSeverityOrder == "desc"
RouteSeverityOrder == "asc"

TransformedAnalysis(st, sg, id) ==
  [id |-> id, userId |-> st[id].userId, status |-> st[id].status,
   totalLines |-> st[id].totalLines,
   suggestions |-> OrderBy(sg[id], ServiceSeverityOrder)]

GetAnalysisWithSuggestions(c, st, sg, id, userId) ==
  IF FullKey(id) \in DOMAIN c
  THEN IF c[FullKey(id)].userId # userId
       THEN [throws |-> TRUE, analysis |-> NoAnalysis, cache |-> c]
       ELSE [throws |-> FALSE, analysis |-> c[FullKey(id)], cache |-> c]
  ELSE IF id \notin DOMAIN st \/ st[id].userId # userId
       THEN [throws |-> TRUE, analysis |-> NoAnalysis, cache |-> c]
       ELSE [throws |-> FALSE,
             analysis |-> TransformedAnalysis(st, sg, id),
             cache |-> IF st[id].status = "COMPLETED"
                       THEN RedisSetex(c, FullKey(id),
                                       TransformedAnalysis(st, sg, id))
                       ELSE c]

\* outcomes of githubService.verifyRepoAccess: an object with hasAccess true,
\* an object with hasAccess false, or an exception
AccessOutcomes == {"granted", "denied", "error"}

\* createAnalysis step 3: what the controller does with the existing record
ExistingBranchFailedOnly(status) ==
  IF status = "COMPLETED" THEN "return" ELSE "supersede"
ExistingBranch(status) ==
  CASE status = "COMPLETED" -> "return"
    [] status \in InProgress -> "in_progress"
    [] OTHER -> "supersede"

\* AnalysisController.createAnalysis steps 1-3: repository.findFirst,
\* verifyRepoAccess (its result object is always truthy), analysis.findUnique
\* by (repositoryId, prNumber), and the branch on the existing status
Lookup(r, access) ==
  IF r.user # Owner THEN Reply(r, 404, "repo_not_found")
  ELSE IF access = "error" THEN Reply(r, 500, "verify_failed")
  ELSE IF IdsOfPair(store, r.pr) = {}
       THEN [r EXCEPT !.pc = "c_insert", !.seen = "NONE", !.access = access]
  ELSE LET id == CHOOSE i \in IdsOfPair(store, r.pr) : TRUE
           st == store[id].status
           found == [r EXCEPT !.id = id, !.seen = st, !.access = access]
       IN  CASE ExistingBranch(st) = "return" ->
                  [found EXCEPT !.pc = "c_completed"]
             [] ExistingBranch(st) = "in_progress" ->
                  Reply([found EXCEPT !.rid = id, !.status = st],
                        202, "in_progress")
             [] OTHER -> [found EXCEPT !.pc = "c_delete"]

\* analysisCreationLimit = rateLimit({ windowMs: 15 minutes, max: 5, ... }),
\* the first middleware of both POST routes
CreationLimit == 5

\* keyGenerator: req.user?.userId || req.ip, behind authMiddleware
KeyGenerator(u) == u

\* the limiter counts the request under its key (skip: only POST requests
\* are counted, and both routes are POST routes); counts above max + 1 are
\* not told apart
Increment(h, key) == [h EXCEPT ![key] = Min(@ + 1, CreationLimit + 1)]

\* the request is answered 429 with the limiter's message when the key's
\* count, this request included, exceeds max
LimitReachedNever(totalHits) == FALSE
LimitReached(totalHits) == totalHits > CreationLimit

\* POST /analyses/repositories/{id}/analyze: analysisCreationLimit, the
\* route's validateRepositoryAccess middleware, then the controller
StartCreate(s) ==
  /\ CanStart(s)
  /\ \E u \in Users, pr \in PRs, access \in AccessOutcomes :
       LET r == [IdleReq EXCEPT !.op = "create", !.user = u, !.pr = pr]
           h == Increment(hits, KeyGenerator(u))
       IN  /\ hits' = h
           /\ req' = [req EXCEPT ![s] =
                        IF LimitReached(h[KeyGenerator(u)])
                        THEN Reply(r, 429, "rate_limited")
                        ELSE IF u # Owner THEN Reply(r, 400, "repo_denied")
                        ELSE Lookup(r, access)]
  /\ UNCHANGED <<store, suggestions, nextId, cache, run, faults, deletedOk>>

\* createAnalysis as called by the rerun handler, after its delete
CreateLookup(s) ==
  /\ req[s].pc = "c_lookup"
  /\ \E access \in AccessOutcomes :
       req' = [req EXCEPT ![s] = Lookup(req[s], access)]
  /\ UNCHANGED <<store, suggestions, nextId, cache, run, faults,
                 deletedOk, hits>>

\* existing record COMPLETED: getAnalysisWithSuggestions(existingAnalysis.id)
CreateCompleted(s) ==
  /\ req[s].pc = "c_completed"
  /\ LET got == GetAnalysisWithSuggestions(cache, store, suggestions,
                  req[s].id, ServiceUserIdArg(req[s].user))
     IN  /\ cache' = got.cache
         /\ req' = [req EXCEPT ![s] =
                      IF got.throws THEN Reply(req[s], 404, "not_found")
                      ELSE Reply([req[s] EXCEPT
                                    !.rid = req[s].id,
                                    !.status = req[s].seen,
                                    !.data = got.analysis.suggestions],
                                 200, "exists")]
  /\ UNCHANGED <<store, suggestions, nextId, run, faults, deletedOk, hits>>

CreateDeleteByPair(s) ==
  /\ req[s].pc = "c_delete"
  /\ IF IdsOfPair(store, req[s].pr) # {}
     THEN /\ store' = Restrict(store,
                               (DOMAIN store) \ IdsOfPair(store, req[s].pr))
          /\ suggestions' = [i \in Ids |->
                               IF i \in IdsOfPair(store, req[s].pr)
                               THEN << >> ELSE suggestions[i]]
          /\ req' = [req EXCEPT ![s].pc = "c_insert"]
     ELSE /\ req' = [req EXCEPT ![s] = Reply(req[s], 404, "P2025")]
          /\ UNCHANGED <<store, suggestions>>
  /\ UNCHANGED <<nextId, cache, run, faults, deletedOk, hits>>
\* existing record FAILED: prisma.analysis.delete({ where: { id } }) with
\* the id read in step 3 (P2025 when already gone)
CreateDelete(s) ==
  /\ req[s].pc = "c_delete"
  /\ IF req[s].id \in DOMAIN store
     THEN /\ store' = PrismaDelete(store, req[s].id)
          /\ suggestions' = CascadeDelete(suggestions, req[s].id)
          /\ req' = [req EXCEPT ![s].pc = "c_insert"]
     ELSE /\ req' = [req EXCEPT ![s] = Reply(req[s], 404, "P2025")]
          /\ UNCHANGED <<store, suggestions>>
  /\ UNCHANGED <<nextId, cache, run, faults, deletedOk, hits>>

\* githubService.getPRInfo: the pull request exists at the diff source, or
\* the lookup yields nothing or throws (a ValidationError either way)
PRInfoOutcomes == {"found", "missing"}

\* steps 4-8: getPRInfo, analysisService.createAnalysis, setImmediate,
\* redis.del(`user:analyses:${userId}`), 202
CreateInsert(s) ==
  /\ req[s].pc = "c_insert"
  /\ \/ /\ "missing" \in PRInfoOutcomes
        /\ req' = [req EXCEPT ![s] = Reply(req[s], 400, "pr_not_found")]
        /\ UNCHANGED <<store, nextId, cache, run, faults>>
     \/ /\ UniqueViolation(store, req[s].pr)
        /\ req' = [req EXCEPT ![s] = Reply(req[s], 400, "P2002")]
        /\ UNCHANGED <<store, nextId, cache, run, faults>>
     \/ /\ ~UniqueViolation(store, req[s].pr)
        /\ nextId <= MaxIds
        /\ store' = PrismaCreate(store, nextId, req[s].user, req[s].pr)
        /\ nextId' = nextId + 1
        /\ run' = [run EXCEPT ![nextId].pc = "queued"]
        /\ \E o \in CacheOutcomes :
             /\ Charge(o)
             /\ IF o = "ok"
                THEN /\ cache' = RedisDel(cache, {UserAnalysesKey(req[s].user)})
                     /\ req' = [req EXCEPT ![s] =
                                  Reply([req[s] EXCEPT !.rid = nextId,
                                                       !.status = "PENDING"],
                                        202, "started")]
                ELSE /\ cache' = cache
                     /\ req' = [req EXCEPT ![s] =
                                  Reply([req[s] EXCEPT !.rid = nextId],
                                        500, "cache_error")]
  /\ UNCHANGED <<suggestions, deletedOk, hits>>

\* the rerun handler's three checks on originalAnalysis: the ValidationError
\* it raises, "" when the rerun may proceed
RerunRejectionOwnerOnly(st, id, u) ==
  IF id \notin DOMAIN st THEN "not_found"
  ELSE IF st[id].userId # u THEN "denied"
  ELSE ""
RerunRejection(st, id, u) ==
  IF id \notin DOMAIN st THEN "not_found"
  ELSE IF st[id].userId # u THEN "denied"
  ELSE IF st[id].status # "FAILED" THEN "not_failed"
  ELSE ""

\* POST /analyses/{id}/rerun: analysisCreationLimit, then findUnique and the
\* three checks
StartRerun(s) ==
  /\ CanStart(s)
  /\ \E u \in Users, id \in Issued :
       LET r == [IdleReq EXCEPT !.op = "rerun", !.user = u, !.id = id]
           h == Increment(hits, KeyGenerator(u))
       IN  /\ hits' = h
           /\ req' = [req EXCEPT ![s] =
                        IF LimitReached(h[KeyGenerator(u)])
                        THEN Reply(r, 429, "rate_limited")
                        ELSE IF RerunRejection(store, id, u) # ""
                        THEN Reply(r, 400, RerunRejection(store, id, u))
                        ELSE [r EXCEPT !.pc = "r_delete",
                                       !.pr = store[id].pr]]
  /\ UNCHANGED <<store, suggestions, nextId, cache, run, faults, deletedOk>>

\* rerun: prisma.analysis.delete, then analysisController.createAnalysis
RerunDelete(s) ==
  /\ req[s].pc = "r_delete"
  /\ IF req[s].id \in DOMAIN store
     THEN /\ store' = PrismaDelete(store, req[s].id)
          /\ suggestions' = CascadeDelete(suggestions, req[s].id)
          /\ req' = [req EXCEPT ![s].pc = "c_lookup"]
     ELSE /\ req' = [req EXCEPT ![s] = Reply(req[s], 404, "P2025")]
          /\ UNCHANGED <<store, suggestions>>
  /\ UNCHANGED <<nextId, cache, run, faults, deletedOk, hits>>

\* DELETE /analyses/{id}: findUnique, ownership, the PROCESSING guard
StartDelete(s) ==
  /\ CanStart(s)
  /\ \E u \in Users, id \in Issued :
       LET r == [IdleReq EXCEPT !.op = "delete", !.user = u, !.id = id]
       IN  req' = [req EXCEPT ![s] =
                     IF id \notin DOMAIN store THEN Reply(r, 404, "not_found")
                     ELSE IF store[id].userId # u THEN Reply(r, 403, "denied")
                     ELSE IF store[id].status = "PROCESSING"
                          THEN Reply(r, 400, "processing")
                     ELSE [r EXCEPT !.pc = "d_delete"]]
  /\ UNCHANGED <<store, suggestions, nextId, cache, run, faults,
                 deletedOk, hits>>

\* deleteAnalysis steps 3-4: prisma.analysis.delete, then redis.del of
\* `analysis:${id}` and `user:analyses:${userId}`, then 200; a cache error
\* after the delete is answered 500
DeleteDelete(s) ==
  /\ req[s].pc = "d_delete"
  /\ IF req[s].id \in DOMAIN store
     THEN /\ store' = PrismaDelete(store, req[s].id)
          /\ suggestions' = CascadeDelete(suggestions, req[s].id)
          /\ \E o \in CacheOutcomes :
               /\ Charge(o)
               /\ IF o = "ok"
                  THEN /\ cache' = RedisDel(cache,
                                            {AnalysisKey(req[s].id),
                                             UserAnalysesKey(req[s].user)})
                       /\ deletedOk' = deletedOk \cup {req[s].id}
                       /\ req' = [req EXCEPT ![s] =
                                    Reply(req[s], 200, "deleted")]
                  ELSE /\ UNCHANGED <<cache, deletedOk>>
                       /\ req' = [req EXCEPT ![s] =
                                    Reply(req[s], 500, "cache_error")]
     ELSE /\ req' = [req EXCEPT ![s] = Reply(req[s], 404, "P2025")]
          /\ UNCHANGED <<store, suggestions, cache, deletedOk, faults>>
  /\ UNCHANGED <<nextId, run, hits>>

\* getAnalysis on a cache hit: cachedData.userId !== userId
CachedOwnerMismatchNever(cachedUserId, userId) == FALSE
CachedOwnerMismatch(cachedUserId, userId) == cachedUserId # userId

\* GET /analyses/{id} step 1: redis.get(`analysis:${id}`)
StartGet(s) ==
  /\ CanStart(s)
  /\ \E u \in Users, id \in Issued :
       LET r == [IdleReq EXCEPT !.op = "get", !.user = u, !.id = id,
                                !.afterDel = (id \in deletedOk)]
       IN  req' = [req EXCEPT ![s] =
                     IF AnalysisKey(id) \in DOMAIN cache
                     THEN IF CachedOwnerMismatch(
                                cache[AnalysisKey(id)].userId, u)
                          THEN Reply(r, 403, "cache_denied")
                          ELSE Reply([r EXCEPT
                                 !.rid = id,
                                 !.status = cache[AnalysisKey(id)].status,
                                 !.data = cache[AnalysisKey(id)].suggestions],
                                 200, "cache")
                     ELSE [r EXCEPT !.pc = "g_load"]]
  /\ UNCHANGED <<store, suggestions, nextId, cache, run, faults,
                 deletedOk, hits>>

\* getAnalysis steps 2-5: getAnalysisWithSuggestions(analysisId), ownership,
\* redis.setex of a COMPLETED result, 200
GetLoad(s) ==
  /\ req[s].pc = "g_load"
  /\ LET got == GetAnalysisWithSuggestions(cache, store, suggestions,
                  req[s].id, ServiceUserIdArg(req[s].user))
         \* seen: the status of the requester's own record at this read
         r == [req[s] EXCEPT !.seen =
                 IF req[s].id \in DOMAIN store
                    /\ store[req[s].id].userId = req[s].user
                 THEN store[req[s].id].status ELSE "NONE"]
     IN  IF got.throws
         THEN /\ cache' = got.cache
              /\ req' = [req EXCEPT ![s] = Reply(r, 404, "not_found")]
         ELSE IF got.analysis.userId # req[s].user
         THEN /\ cache' = got.cache
              /\ req' = [req EXCEPT ![s] = Reply(r, 403, "denied")]
         ELSE /\ cache' = IF got.analysis.status = "COMPLETED"
                          THEN RedisSetex(got.cache, AnalysisKey(req[s].id),
                                          got.analysis)
                          ELSE got.cache
              /\ req' = [req EXCEPT ![s] =
                           Reply([r EXCEPT
                                    !.rid = req[s].id,
                                    !.status = got.analysis.status,
                                    !.data = got.analysis.suggestions],
                                 200, "store")]
  /\ UNCHANGED <<store, suggestions, nextId, run, faults, deletedOk, hits>>

\* GET /analyses/{id}/suggestions: findUnique and the ownership check
StartSuggestions(s) ==
  /\ CanStart(s)
  /\ \E u \in Users, id \in Issued :
       LET r == [IdleReq EXCEPT !.op = "suggestions", !.user = u, !.id = id]
       IN  req' = [req EXCEPT ![s] =
                     IF id \notin DOMAIN store THEN Reply(r, 404, "not_found")
                     ELSE IF store[id].userId # u THEN Reply(r, 403, "denied")
                     ELSE [r EXCEPT !.pc = "s_find",
                                    !.status = store[id].status]]
  /\ UNCHANGED <<store, suggestions, nextId, cache, run, faults,
                 deletedOk, hits>>

\* suggestions route: prisma.suggestion.findMany (no filter, first page)
\* and count, then 200
SuggestionsFind(s) ==
  /\ req[s].pc = "s_find"
  /\ req' = [req EXCEPT ![s] =
               Reply([req[s] EXCEPT
                        !.rid = req[s].id,
                        !.data = OrderBy(suggestions[req[s].id],
                                         RouteSeverityOrder)],
                     200, "store")]
  /\ UNCHANGED <<store, suggestions, nextId, cache, run, faults,
                 deletedOk, hits>>

\* the format query parameter of the export route (default "json")
Formats == {"json", "csv", "xml"}

\* GET /analyses/{id}/export.  The handler replaces res.json by a function
\* that keeps the data and sends nothing, and calls
\* analysisController.getAnalysis(req, res, callback); the file is sent from
\* the callback.  getAnalysis calls its third argument only with an error;
\* when it succeeds it calls ApiResponse.success, that is the replaced
\* res.json, and returns: the handler is over ("kept") and nothing was sent.
\* This is the format check and getAnalysis step 1.
StartExport(s) ==
  /\ CanStart(s)
  /\ \E u \in Users, id \in Issued, format \in Formats :
       LET r == [IdleReq EXCEPT
                   !.op = "export", !.user = u, !.id = id, !.format = format,
                   !.seen = IF id \in DOMAIN store /\ store[id].userId = u
                            THEN store[id].status ELSE "NONE"]
       IN  req' = [req EXCEPT ![s] =
                     IF format \notin {"json", "csv"}
                     THEN Reply(r, 400, "bad_format")
                     ELSE IF AnalysisKey(id) \in DOMAIN cache
                     THEN IF CachedOwnerMismatch(
                                cache[AnalysisKey(id)].userId, u)
                          THEN Reply(r, 403, "cache_denied")
                          ELSE [r EXCEPT
                                  !.pc = "kept",
                                  !.data = cache[AnalysisKey(id)].suggestions]
                     ELSE [r EXCEPT !.pc = "x_load"]]
  /\ UNCHANGED <<store, suggestions, nextId, cache, run, faults, deletedOk,
                 hits>>

\* export, getAnalysis steps 2-5 with the replaced res.json
ExportLoad(s) ==
  /\ req[s].pc = "x_load"
  /\ LET got == GetAnalysisWithSuggestions(cache, store, suggestions,
                  req[s].id, ServiceUserIdArg(req[s].user))
     IN  IF got.throws
         THEN /\ cache' = got.cache
              /\ req' = [req EXCEPT ![s] = Reply(req[s], 404, "not_found")]
         ELSE IF got.analysis.userId # req[s].user
         THEN /\ cache' = got.cache
              /\ req' = [req EXCEPT ![s] = Reply(req[s], 403, "denied")]
         ELSE /\ cache' = IF got.analysis.status = "COMPLETED"
                          THEN RedisSetex(got.cache, AnalysisKey(req[s].id),
                                          got.analysis)
                          ELSE got.cache
              /\ req' = [req EXCEPT ![s] =
                           [req[s] EXCEPT
                              !.pc = "kept",
                              !.data = got.analysis.suggestions]]
  /\ UNCHANGED <<store, suggestions, nextId, run, faults, deletedOk, hits>>

\* the page getUserAnalyses formats from the store
ListingOf(st, sg, u) ==
  [i \in {j \in DOMAIN st : st[j].userId = u} |->
     [status |-> st[i].status, totalLines |-> st[i].totalLines,
      completedAt |-> st[i].completedAt, suggestionsCount |-> Len(sg[i])]]

\* GET /analyses: cache first, else the store and setex for 5 minutes
ListAnalyses(s) ==
  /\ CanStart(s)
  /\ \E u \in Users, q \in Queries :
       LET r == [IdleReq EXCEPT !.op = "list", !.user = u]
           fresh == ListingOf(store, suggestions, u)
       IN  IF ListKey(u, q) \in DOMAIN cache
           THEN /\ req' = [req EXCEPT ![s] =
                             Reply([r EXCEPT
                                      !.stale = (cache[ListKey(u, q)] # fresh)],
                                   200, "cache")]
                /\ cache' = cache
           ELSE /\ req' = [req EXCEPT ![s] = Reply(r, 200, "store")]
                /\ cache' = RedisSetex(cache, ListKey(u, q), fresh)
  /\ UNCHANGED <<store, suggestions, nextId, run, faults, deletedOk, hits>>

RECURSIVE CountSuggestions(_, _)
CountSuggestions(sg, ids) ==
  IF ids = {} THEN 0
  ELSE LET i == CHOOSE j \in ids : TRUE
       IN  Len(sg[i]) + CountSuggestions(sg, ids \ {i})

\* the six queries getAnalysisStats sends in one Promise.all, by the name of
\* the variable that takes the result
StatsQueries ==
  {"totalAnalyses", "completedAnalyses", "failedAnalyses",
   "processingAnalyses", "totalSuggestions", "recent"}

\* the results of the six queries when all of them read the store st
StatsOf(st, sg, u) ==
  LET mine == {j \in DOMAIN st : st[j].userId = u}
  IN  [totalAnalyses |-> Cardinality(mine),
       completedAnalyses |->
         Cardinality({j \in mine : st[j].status = "COMPLETED"}),
       failedAnalyses |-> Cardinality({j \in mine : st[j].status = "FAILED"}),
       processingAnalyses |->
         Cardinality({j \in mine : st[j].status \in InProgress}),
       totalSuggestions |-> CountSuggestions(sg, mine),
       recent |-> ListingOf(st, sg, u)]

\* what the queries have returned before any of them has
NoStats == StatsOf([i \in {} |-> 0], [i \in Ids |-> << >>], "")

\* Math.round(a / b) for non-negative a and positive b
Round(a, b) == (2 * a + b) \div (2 * b)

\* step 3 of getAnalysisStats: the stats object built from the six results
FormatStats(r) ==
  [overview |->
     [totalAnalyses |-> r.totalAnalyses,
      completedAnalyses |-> r.completedAnalyses,
      failedAnalyses |-> r.failedAnalyses,
      processingAnalyses |-> r.processingAnalyses,
      successRate |-> IF r.totalAnalyses > 0
                      THEN Round(r.completedAnalyses * 100, r.totalAnalyses)
                      ELSE 0],
   suggestions |->
     [totalSuggestions |-> r.totalSuggestions,
      avgSuggestionsPerAnalysis |->
        IF r.completedAnalyses > 0
        THEN Round(r.totalSuggestions, r.completedAnalyses)
        ELSE 0],
   recentActivity |-> r.recent]

\* getAnalysisStats step 1: redis.get(`user:stats:${userId}`); on a miss the
\* six queries are sent
GetAnalysisStats(s, u) ==
  LET r == [IdleReq EXCEPT !.op = "stats", !.user = u]
      fresh == FormatStats(StatsOf(store, suggestions, u))
  IN  req' = [req EXCEPT ![s] =
                IF StatsKey(u) \in DOMAIN cache
                THEN Reply([r EXCEPT !.data = cache[StatsKey(u)],
                                     !.stale = (cache[StatsKey(u)] # fresh)],
                           200, "cache")
                ELSE [r EXCEPT !.pc = "st_query", !.data = NoStats,
                               !.pending = StatsQueries]]

\* the route that takes GET /analyses/stats: the router tries its routes in
\* registration order and "/:id" is registered before "/stats"
StatsRoute == "/:id"

\* GET /analyses/stats.  Under "/:id" the id "stats" fails the CUID pattern
\* of validate(analysisSchemas.analysisId); under "/stats" the request goes
\* to getAnalysisStats
AnalysisStats(s) ==
  /\ CanStart(s)
  /\ \E u \in Users :
       IF StatsRoute # "/stats"
       THEN req' = [req EXCEPT ![s] =
                      Reply([IdleReq EXCEPT !.op = "stats", !.user = u],
                            400, "invalid_id")]
       ELSE GetAnalysisStats(s, u)
  /\ UNCHANGED <<store, suggestions, nextId, cache, run, faults, deletedOk,
                 hits>>

\* one of the six queries is answered by the store, each on its own (there
\* is no transaction around them); a failing query rejects the Promise.all
StatsQuery(s) ==
  /\ req[s].pc = "st_query"
  /\ \E q \in req[s].pending, o \in StoreOutcomes :
       /\ Charge(o)
       /\ req' = [req EXCEPT ![s] =
                    IF o = "ok"
                    THEN [req[s] EXCEPT
                            !.pending = @ \ {q},
                            !.data = [@ EXCEPT ![q] =
                              StatsOf(store, suggestions, req[s].user)[q]]]
                    ELSE Reply([req[s] EXCEPT !.pending = {},
                                              !.data = << >>],
                               500, "store_error")]
  /\ UNCHANGED <<store, suggestions, nextId, cache, run, deletedOk, hits>>

\* steps 3-4 once all six are answered: the stats object, redis.setex for 10
\* minutes, 200
StatsReply(s) ==
  /\ req[s].pc = "st_query"
  /\ req[s].pending = {}
  /\ \E o \in CacheOutcomes :
       /\ Charge(o)
       /\ IF o = "ok"
          THEN /\ cache' = RedisSetex(cache, StatsKey(req[s].user),
                                      FormatStats(req[s].data))
               /\ req' = [req EXCEPT ![s] =
                            Reply([req[s] EXCEPT
                                     !.data = FormatStats(req[s].data)],
                                  200, "store")]
          ELSE /\ cache' = cache
               /\ req' = [req EXCEPT ![s] =
                            Reply([req[s] EXCEPT !.data = << >>],
                                  500, "cache_error")]
  /\ UNCHANGED <<store, suggestions, nextId, run, deletedOk, hits>>

\* getAnalysisStatus's statusData (createdAt and the duration computed from
\* the two dates are not modelled)
StatusData(st, sg, id) ==
  [id |-> id, status |-> st[id].status, completedAt |-> st[id].completedAt,
   suggestionCount |-> Len(sg[id])]

\* AnalysisService.getAnalysisStatus(analysisId, userId), called for a user
\* and an id: redis.get, on a miss findFirst({ id, userId }) and redis.setex
\* for 1 minute.  tag is the outcome: the source of the returned data, or
\* the error thrown
GetAnalysisStatus(s) ==
  /\ CanStart(s)
  /\ \E u \in Users, id \in Issued, o \in StoreCacheOutcomes :
       LET \* seen: the status of the caller's own record at this call
           r == [IdleReq EXCEPT
                   !.op = "status", !.user = u, !.id = id,
                   !.seen = IF id \in DOMAIN store /\ store[id].userId = u
                            THEN store[id].status ELSE "NONE"]
           key == StatusKey(id)
       IN  /\ Charge(o)
           /\ IF \/ o = "cache_fail"
                 \/ o = "store_fail" /\ key \notin DOMAIN cache
              THEN /\ cache' = cache
                   /\ req' = [req EXCEPT ![s] = Reply(r, 0, "Error")]
              ELSE IF key \in DOMAIN cache
              THEN /\ cache' = cache
                   /\ req' = [req EXCEPT ![s] =
                                Reply([r EXCEPT !.data = cache[key]],
                                      0, "cache")]
              ELSE IF id \notin DOMAIN store \/ store[id].userId # u
              THEN /\ cache' = cache
                   /\ req' = [req EXCEPT ![s] = Reply(r, 0, "NotFoundError")]
              ELSE /\ cache' = RedisSetex(cache, key,
                                          StatusData(store, suggestions, id))
                   /\ req' = [req EXCEPT ![s] =
                                Reply([r EXCEPT !.data =
                                         StatusData(store, suggestions, id)],
                                      0, "store")]
  /\ UNCHANGED <<store, suggestions, nextId, run, deletedOk, hits>>

Requests ==
  \E s \in Slots :
    \/ StartCreate(s)
    \/ CreateLookup(s)
    \/ CreateCompleted(s)
    \/ CreateDelete(s)
    \/ CreateInsert(s)
    \/ StartRerun(s)
    \/ RerunDelete(s)
    \/ StartDelete(s)
    \/ DeleteDelete(s)
    \/ StartGet(s)
    \/ GetLoad(s)
    \/ ListAnalyses(s)
    \/ AnalysisStats(s)

(* --------------------------- specification ----------------------------- *)
Init ==
  /\ store = [i \in {} |-> 0]
  /\ suggestions = [i \in Ids |-> << >>]
  /\ nextId = 1
  /\ cache = [k \in {} |-> 0]
  /\ run = [i \in Ids |-> NoRun]
  /\ req = [s \in Slots |-> IdleReq]
  /\ faults = 0
  /\ deletedOk = {}
  /\ hits = [u \in Users |-> 0]

Next == Pipeline \/ Requests

Spec == Init /\ [][Next]_vars

\* The cache is a separate server that outlives the process: an entry written
\* under `analysis:${id}` less than an hour before the start (setex 3600) is
\* still there.  InitWarm is such a start: the store holds the owner's
\* COMPLETED analysis of the first pull request with its saved suggestion,
\* and the cache holds the entry getAnalysis writes for it.
WarmStore ==
  [i \in {1} |->
     [pr |-> 1, userId |-> Owner, status |-> "COMPLETED",
      totalLines |-> CalculateTotalLines(DiffFiles), completedAt |-> TRUE]]

WarmSuggestions == [i \in Ids |-> IF i = 1 THEN <<AiSuggestion>> ELSE << >>]

WarmCache ==
  [k \in {AnalysisKey(1)} |->
     TransformedAnalysis(WarmStore, WarmSuggestions, 1)]

InitWarm ==
  /\ store = WarmStore
  /\ suggestions = WarmSuggestions
  /\ nextId = 2
  /\ cache = WarmCache
  /\ run = [i \in Ids |->
              IF i = 1
              THEN [NoRun EXCEPT !.pc = "done", !.report = <<AiSuggestion>>,
                                 !.prNumber = 1, !.userId = Owner,
                                 !.bundle = FirstBundle(1)]
              ELSE NoRun]
  /\ req = [s \in Slots |-> IdleReq]
  /\ faults = 0
  /\ deletedOk = {}
  /\ hits = [u \in Users |-> 0]

SpecWarm == InitWarm /\ [][Next]_vars

\* One run in full: the owner's analysis of the first pull request has just
\* been created (PENDING, its run queued).  The owner's GitHub session
\* (`session:${userId}`, written at login) is still in the cache or has
\* expired.  The run uses the adapters in full.
InitEngine ==
  /\ store = PrismaCreate([i \in {} |-> 0], 1, Owner, 1)
  /\ suggestions = [i \in Ids |-> << >>]
  /\ nextId = 2
  /\ \E session \in BOOLEAN :
       cache = IF session
               THEN RedisSetex([k \in {} |-> 0], SessionKey(Owner),
                               JsonStringify([githubToken |-> "token"]))
               ELSE [k \in {} |-> 0]
  /\ run = [i \in Ids |-> IF i = 1 THEN [NoRun EXCEPT !.pc = "queued"] ELSE NoRun]
  /\ req = [s \in Slots |-> IdleReq]
  /\ faults = 0
  /\ deletedOk = {}
  /\ hits = [u \in Users |-> 0]

NextEngine == EnginePipeline

SpecEngine == InitEngine /\ [][NextEngine]_vars

\* Two runs for one pull request: after the same start, one request is
\* handled.  A rerun replaces the FAILED record, so that a second run fetches
\* and analyses the same pull request; a read returns what the first run
\* stored.  Meanwhile the cached diff bundle can expire.

\* one request: POST /analyses/{id}/rerun, GET /analyses/{id} or
\* GET /analyses/{id}/suggestions
ReuseRequests ==
  \E s \in {1} :
    \/ StartRerun(s)
    \/ RerunDelete(s)
    \/ CreateLookup(s)
    \/ CreateInsert(s)
    \/ StartGet(s)
    \/ GetLoad(s)
    \/ StartSuggestions(s)
    \/ SuggestionsFind(s)

\* the 30 minutes of a cached diff bundle are over (setex 1800); the engine's
\* reports are kept for 24 hours (setex 86400) and outlive the behaviour
ExpireDiff ==
  /\ \E pr \in PRs :
       /\ DiffKey(pr) \in DOMAIN cache
       /\ cache' = RedisDel(cache, {DiffKey(pr)})
  /\ UNCHANGED <<store, suggestions, nextId, run, req, faults, deletedOk, hits>>

NextReuse == ReusePipeline \/ ReuseRequests \/ ExpireDiff

SpecReuse == InitEngine /\ [][NextReuse]_vars

\* The creation limiter at work: one client connection sends one POST after
\* the other, far more than the limiter admits in a window, while the runs of
\* the created records proceed and the limiter's windows end.

\* the response has been sent; the connection takes the next request
NextRequest(s) ==
  /\ req[s].pc = "done"
  /\ req' = [req EXCEPT ![s] = IdleReq]
  /\ UNCHANGED <<store, suggestions, nextId, cache, run, faults, deletedOk,
                 hits>>

\* windowMs after a key's first hit its count starts again
ResetWindow ==
  /\ \E u \in Users :
       /\ hits[u] > 0
       /\ hits' = [hits EXCEPT ![u] = 0]
  /\ UNCHANGED <<store, suggestions, nextId, cache, run, req, faults,
                 deletedOk>>

LimitRequests ==
  \E s \in {1} :
    \/ StartCreate(s)
    \/ CreateLookup(s)
    \/ CreateCompleted(s)
    \/ CreateDelete(s)
    \/ CreateInsert(s)
    \/ StartRerun(s)
    \/ RerunDelete(s)
    \/ NextRequest(s)

\* a quiet start: nothing stored, nothing counted, and the store and the
\* cache answer every call of the behaviour (runs still fail at the diff
\* source and at the engine)
InitQuiet ==
  /\ store = [i \in {} |-> 0]
  /\ suggestions = [i \in Ids |-> << >>]
  /\ nextId = 1
  /\ cache = [k \in {} |-> 0]
  /\ run = [i \in Ids |-> NoRun]
  /\ req = [s \in Slots |-> IdleReq]
  /\ faults = MaxFaults
  /\ deletedOk = {}
  /\ hits = [u \in Users |-> 0]

NextLimit == Pipeline \/ LimitRequests \/ ResetWindow

SpecLimit == InitQuiet /\ [][NextLimit]_vars

\* Exports of a stored analysis: the store holds the owner's COMPLETED
\* analysis as in InitWarm, and its `analysis:${id}` entry is still in the
\* cache or has expired.  Requests are exports; a handler that has started
\* is run to its end by the event loop.
InitExport ==
  /\ store = WarmStore
  /\ suggestions = WarmSuggestions
  /\ nextId = 2
  /\ \E warm \in BOOLEAN : cache = IF warm THEN WarmCache ELSE [k \in {} |-> 0]
  /\ run = [i \in Ids |->
              IF i = 1
              THEN [NoRun EXCEPT !.pc = "done", !.report = <<AiSuggestion>>,
                                 !.prNumber = 1, !.userId = Owner,
                                 !.bundle = FirstBundle(1)]
              ELSE NoRun]
  /\ req = [s \in Slots |-> IdleReq]
  /\ faults = 0
  /\ deletedOk = {}
  /\ hits = [u \in Users |-> 0]

NextExport == \E s \in Slots : StartExport(s) \/ ExportLoad(s)

SpecExport ==
  /\ InitExport
  /\ [][NextExport]_vars
  /\ \A s \in Slots : WF_vars(ExportLoad(s))

\* The two read functions no route reaches, called directly: getAnalysisStats
\* as the route table means to call it (SpecStats), and the service's
\* getAnalysisStatus (SpecStatus).
\* The owner's analysis of the first pull request has just been created
\* (PENDING, its run queued) and its run interleaves with the calls; the
\* store and the cache answer every call.
InitStats ==
  /\ store = PrismaCreate([i \in {} |-> 0], 1, Owner, 1)
  /\ suggestions = [i \in Ids |-> << >>]
  /\ nextId = 2
  /\ cache = [k \in {} |-> 0]
  /\ run = [i \in Ids |-> IF i = 1 THEN [NoRun EXCEPT !.pc = "queued"]
                                     ELSE NoRun]
  /\ req = [s \in Slots |-> IdleReq]
  /\ faults = MaxFaults
  /\ deletedOk = {}
  /\ hits = [u \in Users |-> 0]

\* getAnalysisStats(req, res, next) for an authenticated user
CallStats(s) ==
  /\ CanStart(s)
  /\ \E u \in Users : GetAnalysisStats(s, u)
  /\ UNCHANGED <<store, suggestions, nextId, cache, run, faults, deletedOk,
                 hits>>

\* calls of getAnalysisStats, one after the other
StatsRequests ==
  \E s \in {1} :
    \/ CallStats(s)
    \/ StatsQuery(s)
    \/ StatsReply(s)
    \/ NextRequest(s)

NextStats == Pipeline \/ StatsRequests

SpecStats == InitStats /\ [][NextStats]_vars

\* calls of getAnalysisStatus, for either user
StatusRequests == \E s \in Slots : GetAnalysisStatus(s)

NextStatus == Pipeline \/ StatusRequests

SpecStatus == InitStats /\ [][NextStatus]_vars

(* ------------------------------- claims -------------------------------- *)
Finished(i) == run[i].pc \in {"done", "rejected"}
Creates(s) == req[s].op \in {"create", "rerun"}

\* C1: in every reachable state each (repositoryId, prNumber) pair has at most
\* one AnalysisRecord whose status is PENDING or PROCESSING.
C1_AtMostOneInProgress ==
  \A pr \in PRs :
    Cardinality({i \in IdsOfPair(store, pr) : store[i].status \in InProgress})
      <= 1

\* C1 witness: two create requests for one pair raced (both looked up before
\* either inserted); one record is in progress and the loser was refused.
C1_RaceKeptOneRecord ==
  \E a, b \in Slots :
    /\ a # b
    /\ req[a].pc = "done" /\ req[a].tag = "started"
    /\ req[b].pc = "done" /\ req[b].tag = "P2002"
    /\ req[a].pr = req[b].pr
    /\ req[a].rid \in DOMAIN store
    /\ store[req[a].rid].status \in InProgress

AllowedTransitions ==
  {<<"PENDING", "PROCESSING">>, <<"PROCESSING", "COMPLETED">>,
   <<"PROCESSING", "FAILED">>}

\* C2: every status change of an AnalysisRecord is PENDING->PROCESSING,
\* PROCESSING->COMPLETED or PROCESSING->FAILED, and a record that is COMPLETED
\* or FAILED never changes status again, whatever the outcome of the store,
\* cache and adapter calls.  Both clauses fail; this is the second one: no
\* status change leaves COMPLETED or FAILED.
C2_TerminalNeverChanges ==
  [][\A i \in Ids :
       (i \in DOMAIN store /\ i \in DOMAIN store'
        /\ store'[i].status # store[i].status)
       => (/\ store[i].status \notin Terminal
           /\ <<store[i].status, store'[i].status>> \in
                AllowedTransitions \cup {<<"PENDING", "FAILED">>})]_vars

\* C3: once a pipeline run has been dispatched for an id, the record reaches
\* COMPLETED or FAILED; stated on the finished run: when the callback has
\* ended, a record that still exists is not PENDING or PROCESSING.
C3_FinishedRunIsTerminal ==
  \A i \in Ids :
    (Finished(i) /\ i \in DOMAIN store) => store[i].status \in Terminal

\* C4: a create-analysis request that finds the pair's record COMPLETED
\* returns a success response with that record's id and its suggestions.
C4_CompletedIsReturned ==
  \A s \in Slots :
    (Creates(s) /\ req[s].pc = "done" /\ req[s].seen = "COMPLETED")
    => (req[s].code = 200 /\ req[s].rid = req[s].id)

\* C5: a create-analysis request that finds the pair's record PENDING or
\* PROCESSING answers 202 with that record's id and status, creates no record,
\* schedules no pipeline run and leaves the Record Store unchanged.
C5_InProgressIsAccepted ==
  [][\A s \in Slots :
       (req'[s] # req[s] /\ req[s].pc \in {"idle", "c_lookup"}
        /\ Creates(s)' /\ req'[s].seen \in InProgress)
       => /\ req'[s].pc = "done"
          /\ req'[s].code = 202
          /\ req'[s].rid \in IdsOfPair(store, req'[s].pr)
          /\ req'[s].status = store[req'[s].rid].status
          /\ req'[s].status \in InProgress
          /\ UNCHANGED <<store, suggestions, nextId, run>>]_vars

\* C5 witness: a create request was answered 202 for a record it found in
\* progress, and that record's run is still the only one for the pair.
C5_AcceptedExisting ==
  \E s \in Slots :
    /\ Creates(s) /\ req[s].pc = "done" /\ req[s].seen \in InProgress
    /\ req[s].code = 202 /\ req[s].tag = "in_progress"
    /\ req[s].rid \in DOMAIN store

\* C6: when two create-analysis requests for one pair overlap, the second is
\* answered with the first request's record id, not with a new id or an
\* error.  Request b overlapped a when b's lookup found no record and b's
\* insert then met a's record (the store refused it).
C6_OverlapReturnsFirst ==
  \A a, b \in Slots :
    (/\ a # b
     /\ req[a].pc = "done" /\ req[b].pc = "done"
     /\ Creates(a) /\ Creates(b) /\ req[a].pr = req[b].pr
     /\ req[a].tag = "started" /\ req[b].tag = "P2002")
    => (req[b].code = 202 /\ req[b].rid = req[a].rid)

\* C7: a pipeline run that failed at a step from the PROCESSING transition
\* through persisting suggestions has, once finished, left its record FAILED
\* with exactly one suggestion, the synthetic error-suggestion.
C7_FailedRunLeavesOneErrorSuggestion ==
  \A i \in Ids :
    (/\ Finished(i) /\ i \in DOMAIN store
     /\ run[i].failed \in {"processing", "diff", "lines", "analyze", "save"})
    => (store[i].status = "FAILED" /\ suggestions[i] = <<ErrorSuggestion>>)

\* C8: the setImmediate callback of a pipeline run never ends with an
\* uncaught error (a rejected promise).
C8_CallbackNeverRejects == \A i \in Ids : run[i].pc # "rejected"

\* C9: a listing or statistics response never carries data computed before
\* the latest write to the owner's analysis records.
C9_NoStaleRead ==
  \A s \in Slots :
    (req[s].pc = "done" /\ req[s].op \in {"list", "stats"}) => ~req[s].stale

C11_OwnedGetReturnsRecord ==
  \A s \in Slots :
    (/\ req[s].op = "get" /\ req[s].pc = "done"
     /\ req[s].seen \in InProgress \cup Terminal)
    => (req[s].code = 200 /\ req[s].rid = req[s].id
        /\ req[s].status = req[s].seen)

\* C12: GET /analyses/{id} never returns analysis data to a requester who is
\* not the owner of the data it reads (the cached entry on a hit, the stored
\* record on a miss); a hit on an entry cached for another user is answered
\* 403 in the step that read the cache, and the store is not read or changed.
C12_OnlyOwnerReadsAnalysis ==
  [][\A s \in Slots :
       (req'[s] # req[s] /\ req'[s].op = "get" /\ req'[s].pc = "done")
       => LET id == req'[s].id
              u == req'[s].user
              hit == req[s].pc = "idle"
              ownerRead == IF hit THEN cache[AnalysisKey(id)].userId
                           ELSE IF id \in DOMAIN store THEN store[id].userId
                           ELSE ""
          IN  /\ (hit /\ ownerRead # u)
                 => (req'[s].code = 403
                     /\ UNCHANGED <<store, suggestions, cache>>)
              /\ ownerRead # u
                 => (req'[s].code # 200 /\ req'[s].data = << >>
                     /\ req'[s].status = "")]_vars

\* C12 witness: a GET found an entry cached for another user and was refused
\* with 403.
C12_CacheHitRefused ==
  \E s \in Slots :
    /\ req[s].op = "get" /\ req[s].pc = "done"
    /\ req[s].code = 403 /\ req[s].tag = "cache_denied"
    /\ req[s].data = << >>

\* C13: a request during which a cache operation failed (tag "cache_error")
\* is still answered with its success response, never with an error.
C13_CacheFailureNeverFailsRequest ==
  \A s \in Slots :
    (req[s].pc = "done" /\ req[s].tag = "cache_error")
    => req[s].code \in {200, 202}

SingleAnalysisKeys(id) == {AnalysisKey(id), FullKey(id)}

C15_DeleteNeverRemovesProcessing ==
  [][\A s \in Slots :
       (req'[s] # req[s] /\ req'[s].op = "delete"
        /\ req'[s].id \in DOMAIN store
        /\ store[req'[s].id].userId = req'[s].user
        /\ store[req'[s].id].status = "PROCESSING")
       => (/\ req'[s].pc = "done" /\ req'[s].code = 400
           /\ UNCHANGED <<store, suggestions>>)]_vars

\* C16: when a rerun request that passed its checks (the analysis is FAILED
\* and owned by the requester) has been handled, it was accepted, the only
\* record of the pair is a new one in PENDING, and no suggestions of a
\* removed record remain.
C16_RerunReplacesRecord ==
  [][\A s \in Slots :
       (/\ req[s].op = "rerun" /\ req[s].pc # "done"
        /\ req'[s].pc = "done")
       => (/\ req'[s].code = 202
           /\ IdsOfPair(store', req'[s].pr) = {req'[s].rid}
           /\ store'[req'[s].rid].status = "PENDING"
           /\ \A i \in Ids \ DOMAIN store' : suggestions'[i] = << >>)]_vars

\* C17: a rerun request on an analysis that is PENDING, PROCESSING or
\* COMPLETED, or that the requester does not own, is rejected (400) in the
\* step that reads it and leaves the Record Store unchanged: no record
\* deleted or created, no pipeline run scheduled.
C17_InvalidRerunIsRejected ==
  [][\A s \in Slots :
       (/\ req[s].pc = "idle" /\ req'[s].op = "rerun"
        /\ req'[s].id \in DOMAIN store
        /\ \/ store[req'[s].id].status # "FAILED"
           \/ store[req'[s].id].userId # req'[s].user)
       => (/\ req'[s].pc = "done" /\ req'[s].code = 400
           /\ UNCHANGED <<store, suggestions, nextId, run>>)]_vars

\* C17 witness: the owner's rerun of an analysis that was not FAILED has been
\* rejected and the record is still there.
C17_RerunOfUnfailedRejected ==
  \E s \in Slots :
    /\ req[s].op = "rerun" /\ req[s].pc = "done"
    /\ req[s].code = 400 /\ req[s].tag = "not_failed"
    /\ req[s].id \in DOMAIN store
    /\ store[req[s].id].userId = req[s].user

\* C18: a create-analysis request by the owner of the active repository that
\* found no record for the pair, whose pull request exists and whose insert
\* met no record, creates a PENDING record, schedules exactly one pipeline
\* run for it and is answered 202 with status PENDING in that same step.
C18_FreshCreateIsAccepted ==
  [][\A s \in Slots :
       (/\ req[s].op = "create" /\ req[s].pc = "c_insert"
        /\ req[s].seen = "NONE" /\ req'[s].pc = "done"
        /\ req'[s].tag \notin {"pr_not_found", "P2002"})
       => (/\ req'[s].code = 202 /\ req'[s].status = "PENDING"
           /\ req'[s].rid \in DOMAIN store' \ DOMAIN store
           /\ store'[req'[s].rid].status = "PENDING"
           /\ run[req'[s].rid].pc = "none"
           /\ run'[req'[s].rid].pc = "queued"
           /\ \A i \in Ids \ {req'[s].rid} : run'[i] = run[i])]_vars

\* C19: a create-analysis request whose verifyRepoAccess call yielded
\* hasAccess = false fails with an Authorization error there: its handler
\* never goes on, holding that result, to the steps that read, delete or
\* insert the pair's record.
C19_DeniedAccessStopsRequest ==
  \A s \in Slots :
    (Creates(s) /\ req[s].access = "denied") => req[s].pc = "done"

\* C20: a create-analysis request for the repository by a user who does not
\* own it ends with NotFound (404).
C20_ForeignRepositoryIsNotFound ==
  \A s \in Slots :
    (req[s].op = "create" /\ req[s].pc = "done" /\ req[s].user # Owner)
    => req[s].code = 404

(* ---------------- suggestion engine and diff adapters ------------------ *)
\* the field bounds of a suggestion row
WithinBounds(row) ==
  /\ row.lineNumber >= 1
  /\ row.message <= 200
  /\ row.suggestion <= 500
  /\ (row.codeSnippet = << >> \/ row.codeSnippet[1] <= 300)

\* C21: every suggestion row in the store, the synthetic error-suggestion of
\* a failed run included, has lineNumber >= 1, a message of at most 200
\* characters, a suggestion of at most 500 and a code snippet of at most 300
\* or none.
C21_PersistedSuggestionWithinBounds ==
  \A id \in Ids :
    \A i \in 1..Len(suggestions[id]) : WithinBounds(suggestions[id][i])

\* a reply that cannot be parsed or fails the structural validation
Malformed(response) ==
  \/ ~response.json
  \/ ~response.object
  \/ ~response.summary.object
  \/ response.suggestions.t # "array"
  \/ response.summary.totalIssues.t # "number"
  \/ response.summary.criticalIssues.t # "number"
  \/ ~Truthy(response.summary.overallRating)
  \/ response.summary.mainConcerns.t # "array"

\* the report is the fallback report: one MEDIUM suggestion in category
\* "Analysis Error"
IsFallback(report) ==
  /\ Len(report) = 1
  /\ report[1].severity = "MEDIUM"
  /\ report[1].category = "Analysis Error"

\* C22: when the engine's reply cannot be parsed or fails the structural
\* validation, analyzeCode returns the fallback report (it does not throw),
\* and a run that met no other failure ends with its record COMPLETED.
C22_MalformedReplyFallsBack ==
  \A id \in Ids :
    (run[id].response.received /\ Malformed(run[id].response))
    => /\ run[id].failed # "analyze"
       /\ IsFallback(run[id].report)
       /\ (Finished(id) /\ run[id].failed = "" /\ id \in DOMAIN store)
          => store[id].status = "COMPLETED"

\* C23: when the call to the suggestion engine itself fails, analyzeCode
\* does not throw: it returns the fallback report and the run goes on to
\* persist it.
C23_EngineFailureFallsBack ==
  \A id \in Ids :
    (run[id].caught.source = "openai")
    => (run[id].failed # "analyze" /\ IsFallback(run[id].report))

\* the two bundles have the same PR number, title and per-file
\* (filename, status, patch)
SameFingerprint(a, b) ==
  /\ a.pr.number = b.pr.number
  /\ a.pr.title = b.pr.title
  /\ Len(a.files) = Len(b.files)
  /\ \A k \in 1..Len(a.files) :
       /\ a.files[k].filename = b.files[k].filename
       /\ a.files[k].status = b.files[k].status
       /\ a.files[k].patch = b.files[k].patch

\* analyzeCode has returned a report to the run
Returned(i) ==
  \/ run[i].pc \in {"save", "complete"}
  \/ /\ run[i].pc \in {"catch", "errsugg", "cbfail", "done", "rejected"}
     /\ run[i].failed \in {"", "save", "complete"}

\* C24: once analyzeCode has returned a report for a diff bundle, a later
\* call that returns for a bundle with the same PR number, title and
\* per-file (filename, status, patch) returns that same report without
\* calling the engine, whichever analysis id it runs for (the 24-hour entry
\* has not expired).
C24_SameDiffReusesReport ==
  \A i, j \in Ids :
    (/\ i < j /\ Returned(i) /\ Returned(j)
     /\ SameFingerprint(run[i].bundle, run[j].bundle))
    => /\ run[j].report = run[i].report
       /\ run[j].summary = run[i].summary
       /\ "openai" \notin run[j].calls

\* a second analysis fetched the bundle again with an edited description
\* and got the first one's two-suggestion report from the cache
C24_ReportReused ==
  \E i, j \in Ids :
    /\ i < j /\ Returned(i) /\ Returned(j)
    /\ SameFingerprint(run[i].bundle, run[j].bundle)
    /\ run[i].bundle # run[j].bundle
    /\ "openai" \in run[i].calls /\ "openai" \notin run[j].calls
    /\ Len(run[j].report) = 2 /\ run[j].report = run[i].report

\* C25: for a structurally valid reply, the report parseAndValidateResponse
\* returns holds exactly the entries that pass isValidSuggestion, in the
\* order of the reply (an invalid entry is dropped and does not cause the
\* fallback); totalIssues is the number of returned suggestions,
\* criticalIssues the number of them with severity HIGH, and mainConcerns
\* has at most 5 entries.
C25_ValidReplyKeepsValidSuggestions ==
  \A id \in Ids :
    LET response == run[id].response
        valid == SelectSeq(response.suggestions.items, IsValidSuggestion)
        report == run[id].report
    IN  (response.received /\ ~Malformed(response) /\ Returned(id))
        => /\ Len(report) = Len(valid)
           /\ \A k \in 1..Len(report) :
                /\ report[k].filePath = valid[k].filePath.s
                /\ report[k].severity = valid[k].severity.s
           /\ run[id].summary.totalIssues = Len(report)
           /\ run[id].summary.criticalIssues =
                Cardinality({k \in 1..Len(report) : report[k].severity = "HIGH"})
           /\ run[id].summary.mainConcerns <= 5

\* C26: every suggestion of a report analyzeCode has returned has a severity
\* in {HIGH, MEDIUM, LOW}, a numeric lineNumber, and non-empty category,
\* message and suggestion texts (filePath is a string in every row).
C26_ReturnedSuggestionIsWellFormed ==
  \A id \in Ids :
    \A k \in 1..Len(run[id].report) :
      /\ run[id].report[k].severity \in {"HIGH", "MEDIUM", "LOW"}
      /\ run[id].report[k].lineNumber \in Int
      /\ run[id].report[k].category # ""
      /\ run[id].report[k].message > 0
      /\ run[id].report[k].suggestion > 0

(* --------------------------- pipeline order ---------------------------- *)
\* additions + deletions summed over the files of a diff
RECURSIVE ChangedLines(_)
ChangedLines(files) ==
  IF files = << >> THEN 0
  ELSE Head(files).additions + Head(files).deletions + ChangedLines(Tail(files))

\* C27: within one run the steps happen in the order fetch diff, persist
\* totalLines, invoke the engine, persist suggestions, set COMPLETED: while
\* totalLines is being persisted the engine has not been called; from the
\* engine call on the record carries totalLines = the sum of additions +
\* deletions over the fetched files, also when the run fails at or after
\* the engine call; suggestions are persisted only after the engine has
\* returned and before the record is COMPLETED.
C27_StepsInOrder ==
  \A id \in (DOMAIN store) :
    LET r == run[id]
        lines == ChangedLines(r.bundle.files)
    IN  /\ r.pc \in {"processing", "diff", "lines"}
           => /\ store[id].totalLines = -1
              /\ "openai" \notin r.calls /\ r.report = << >>
        /\ r.pc = "lines" => r.bundle # NoBundle
        /\ (r.pc \in {"analyze", "save", "complete"}
            \/ r.failed \in {"analyze", "save", "complete"})
           => store[id].totalLines = lines
        /\ r.pc \in {"processing", "diff", "lines", "analyze", "save"}
           => (suggestions[id] = << >> /\ store[id].status # "COMPLETED")
        /\ r.pc = "complete"
           => (suggestions[id] = r.report /\ store[id].status # "COMPLETED")
        /\ store[id].status = "COMPLETED"
           => (suggestions[id] = r.report /\ store[id].totalLines = lines)

\* a run failed at the engine call and its FAILED record carries the line
\* count of the bundle that was fetched
C27_FailedRecordKeepsTotalLines ==
  \E id \in DOMAIN store :
    /\ Finished(id) /\ run[id].failed = "analyze"
    /\ store[id].status = "FAILED"
    /\ run[id].bundle.files = DiffFilesPushed
    /\ store[id].totalLines = 7

\* C28: when the record no longer exists as its run starts, the run ends
\* there: nothing is thrown to the detached callback, which makes no status
\* update.
C28_MissingRecordAbortsSilently ==
  [][\A id \in Ids :
       (run[id].pc = "queued" /\ id \notin DOMAIN store
        /\ run'[id].pc # "queued")
       => run'[id].pc = "done"]_vars

(* ------------------------- suggestion ordering ------------------------- *)
\* HIGH before MEDIUM before LOW
Urgency(severity) ==
  CASE severity = "HIGH" -> 1
    [] severity = "MEDIUM" -> 2
    [] OTHER -> 3

\* HIGH before MEDIUM before LOW and, within a severity, ascending lineNumber
HighFirst(rows) ==
  \A i, j \in 1..Len(rows) :
    i < j => \/ Urgency(rows[i].severity) < Urgency(rows[j].severity)
             \/ /\ rows[i].severity = rows[j].severity
                /\ rows[i].lineNumber <= rows[j].lineNumber

\* C29: the suggestions GET /analyses/{id} and GET /analyses/{id}/suggestions
\* return are ordered HIGH before MEDIUM before LOW and by ascending
\* lineNumber within a severity, and the order of the one endpoint is the
\* order the other endpoint's query gives the same rows.
C29_SuggestionsHighFirst ==
  \A s \in Slots :
    (req[s].op \in {"get", "suggestions"} /\ req[s].code = 200)
    => /\ HighFirst(req[s].data)
       /\ req[s].data = OrderBy(req[s].data, ServiceSeverityOrder)
       /\ req[s].data = OrderBy(req[s].data, RouteSeverityOrder)

(* ----------------------------- diff source ----------------------------- *)
\* C30: getPRDiff reports a 404 of GitHub and a 403 of GitHub as two
\* different errors and every other failure (a missing user session, a
\* failing cache call, any other response) as one generic fetch-failed
\* error; when the cache holds the bundle of the pull request, it returns
\* that bundle and calls nothing outside.
C30_DiffErrorKindsAndCacheHit ==
  [][\A id \in Ids :
       (run[id].pc = "diff" /\ run'[id].pc # "diff")
       => /\ DiffKey(run[id].prNumber) \in DOMAIN cache
             => /\ "github" \notin run'[id].calls
                /\ run'[id].pc = "lines"
                   => run'[id].bundle = cache[DiffKey(run[id].prNumber)].json
          /\ run'[id].pc = "catch"
             => run'[id].error.text =
                  CASE run'[id].caught.source = "github"
                       /\ run'[id].caught.status = 404 ->
                         "Pull request not found or no access to repository"
                    [] run'[id].caught.source = "github"
                       /\ run'[id].caught.status = 403 ->
                         "Access denied to repository or rate limit exceeded"
                    [] OTHER -> "Failed to fetch PR diff from GitHub"]_vars

\* the first run fetched the bundle from GitHub; the run of the record that
\* replaced it got the same bundle from the cache without a call
C30_BundleFromCache ==
  \E i, j \in Ids :
    /\ i < j
    /\ "github" \in run[i].calls
    /\ run[j].pc = "lines" /\ "github" \notin run[j].calls
    /\ run[j].bundle = run[i].bundle /\ run[j].bundle # NoBundle

(* --------------------------- creation limiter -------------------------- *)
\* C31: create and rerun requests are throttled per acting user.  Every POST
\* of a user, create or rerun, is counted under that user and under nobody
\* else; once five POSTs of the user are counted in the current window, a
\* further POST is answered 429 at once and reads and writes no analysis
\* state (store, suggestions, cache, runs), so at most five POSTs of a user
\* reach createAnalysis or the rerun handler in one window.  Nothing but a
\* POST and the end of a window changes a count.
C31_CreationThrottledPerUser ==
  [][/\ \A s \in Slots :
          (req[s].pc = "idle" /\ req'[s].op \in {"create", "rerun"})
          => LET u == req'[s].user
             IN  /\ hits'[u] = IF hits[u] <= CreationLimit
                               THEN hits[u] + 1 ELSE hits[u]
                 /\ \A v \in Users \ {u} : hits'[v] = hits[v]
                 /\ hits[u] >= CreationLimit
                    => /\ req'[s].pc = "done" /\ req'[s].code = 429
                       /\ UNCHANGED <<store, suggestions, nextId, cache, run>>
                 /\ hits[u] < CreationLimit => req'[s].code # 429
     /\ (\A s \in Slots : req[s].pc = "idle" => req'[s].pc = "idle")
        => \/ hits' = hits
           \/ \E u \in Users : hits' = [hits EXCEPT ![u] = 0]]_vars

\* the owner's rerun of a FAILED record, which the handler would accept, is
\* the sixth POST of the window and is refused
C31_SixthPostRefused ==
  \E s \in Slots :
    /\ req[s].op = "rerun" /\ req[s].code = 429
    /\ req[s].id \in DOMAIN store
    /\ store[req[s].id].status = "FAILED"
    /\ store[req[s].id].userId = req[s].user
    /\ hits[req[s].user] > CreationLimit

(* ------------------------------ statistics ----------------------------- *)
\* C32: an authenticated GET /analyses/stats is dispatched to
\* getAnalysisStats and answered 200 with the statistics, from the cache or
\* from the store; the "/:id" route and its id validation do not take it.
C32_StatsRequestReachesHandler ==
  \A s \in Slots :
    (req[s].op = "stats" /\ req[s].pc = "done")
    => /\ req[s].code = 200
       /\ req[s].tag \in {"cache", "store"}

(* -------------------------------- export ------------------------------- *)
\* C33: every export request with format json or csv for an analysis the
\* requester owns is eventually answered with a response that carries the
\* analysis; it never stays unanswered.
C33_ExportIsAnswered ==
  \A s \in Slots :
    (/\ req[s].op = "export"
     /\ req[s].format \in {"json", "csv"}
     /\ req[s].seen \in InProgress \cup Terminal)
    ~> (req[s].pc = "done" /\ req[s].code = 200)

(* ---------------------------- failed creates --------------------------- *)
\* the create request in slot s is answered with an error in this step
CreateFails(s) ==
  /\ req'[s].op = "create"
  /\ req[s].pc # "done" /\ req'[s].pc = "done"
  /\ req'[s].code >= 400

\* the request in slot s has deleted the FAILED record it found
HasSuperseded(s) == req[s].pc = "c_insert" /\ req[s].seen = "FAILED"

\* C34: a create request that ends in an error response has changed nothing
\* durable: the step that answers it creates and deletes no record and
\* schedules no run, and the request has not deleted the FAILED record of
\* its pair before.
C34_FailedCreateChangesNothing ==
  [][\A s \in Slots :
       CreateFails(s)
       => /\ UNCHANGED <<store, suggestions, nextId, run>>
          /\ ~HasSuperseded(s)]_vars

(* ----------------------------- completedAt ----------------------------- *)
\* C35: in every reachable state a record has a completedAt exactly when its
\* status is COMPLETED.
C35_CompletedAtIffCompleted ==
  \A i \in DOMAIN store :
    store[i].completedAt <=> store[i].status = "COMPLETED"

(* ----------------------------- supersession ---------------------------- *)
\* the request in slot s takes a step in which it deletes by id
Deletes(s) ==
  /\ req[s].pc \in {"c_delete", "r_delete", "d_delete"}
  /\ req'[s] # req[s]

\* C36: a request that supersedes a FAILED record deletes only the record id
\* it observed.  Under every interleaving: a record that disappears is the
\* one whose id the deleting request read; a new record gets an id that was
\* never issued before, so a replacement is never the record an earlier
\* reader observed; and the status and the suggestions of a record change
\* only in a step of the run scheduled for that record's own id.
C36_SupersessionDeletesObservedIdOnly ==
  [][/\ \A i \in (DOMAIN store) \ (DOMAIN store') :
          \E s \in Slots : Deletes(s) /\ req[s].id = i
     /\ \A i \in (DOMAIN store') \ (DOMAIN store) :
          i = nextId /\ nextId' = nextId + 1
     /\ nextId' >= nextId
     /\ \A i \in (DOMAIN store) \cap (DOMAIN store') :
          (store'[i] # store[i] \/ suggestions'[i] # suggestions[i])
          => run'[i] # run[i]]_vars

\* two creates found the same FAILED record; one replaced it, the other was
\* answered P2025 by its delete, and the replacement is in the store while
\* the run of the old id has not ended
C36_RaceKeptReplacement ==
  \E s, t \in Slots :
    /\ s # t
    /\ req[s].seen = "FAILED" /\ req[t].seen = "FAILED"
    /\ req[s].id = req[t].id
    /\ req[t].pc = "done" /\ req[t].tag = "P2025"
    /\ req[s].pc = "done" /\ req[s].rid # req[s].id
    /\ req[s].rid \in DOMAIN store
    /\ ~Finished(req[s].id)

(* ------------------------- statistics and status ----------------------- *)
\* C37: in every statistics result of getAnalysisStats, computed from the
\* store or served from the cache, totalAnalyses = completedAnalyses +
\* failedAnalyses + processingAnalyses, also when status transitions of the
\* user's records fall between the count queries.
C37_StatsCountsAddUp ==
  \A s \in Slots :
    (req[s].op = "stats" /\ req[s].pc = "done" /\ req[s].code = 200)
    => req[s].data.overview.totalAnalyses
         = req[s].data.overview.completedAnalyses
           + req[s].data.overview.failedAnalyses
           + req[s].data.overview.processingAnalyses

\* C38: getAnalysisStatus returns status data for an analysis only to its
\* owner: a call for a user who does not own the record returns no data,
\* neither from the store nor from the `analysis:status` entry an earlier
\* call of the owner wrote.
C38_StatusOnlyForOwner ==
  \A s \in Slots :
    (req[s].op = "status" /\ req[s].pc = "done" /\ req[s].seen = "NONE")
    => req[s].tag \notin {"cache", "store"}

====
